---- MODULE Spec2Model ----
(***************************************************************************)
(* Model of the room-scoped WebRTC signaling server: the room registry,    *)
(* the hub manager with its idle-cleanup timers, the per-room hub with its *)
(* three presence stores, the per-connection send queues, and the part of  *)
(* the browser client that overwrites its view from state messages.        *)
(*                                                                         *)
(* One step of the model is one access to shared memory or one call to     *)
(* Redis by one goroutine.  A block that runs under a mutex and makes no   *)
(* blocking call is one step.                                              *)
(***************************************************************************)
EXTENDS Integers, Sequences, FiniteSets, TLC

\* ---------------------------------------------------------------- bounds

\* Connections (one /ws request each) that exist.
MaxConns == 3
\* Client inputs in a run: each /ws request and each inbound broadcast or
\* set-username frame is one input.
MaxInputs == 3
\* Client inputs in a run of the fair specification.
LiveInputs == 2
\* POST /api/rooms calls in a run.
MaxCreates == 1
\* Hub objects that the manager may construct in a run.
MaxHubs == 2
\* Idle timers that may be pending or running their callback at the same time.
MaxTimers == 2

\* Requests and frames that the server is working on at the same time.
MaxActive == 2

\* Capacity of a connection's send channel: make(chan []byte, 32).
SendCap == 32

Rooms == {"r1"}
\* A second room, for the runs that begin with two rooms in use.
OtherRooms == {"r2"}
AllRooms == Rooms \cup OtherRooms
NoCode == ""
Codes == Rooms \cup {NoCode}
Conns == 1..MaxConns
Hubs == 1..MaxHubs
Timers == 1..MaxTimers

\* Display names as the client types them, one character per element.
RawNames == {<<>>, <<" ">>, <<"a">>, <<" ", "a", " ">>}
NoName == <<>>

VARIABLES
    rooms,      \* room registry: the codes that have a record in Redis
    creates,    \* POST /api/rooms calls made so far
    sPeers,     \* presence store, per room code: the set webrtc:room:<code>:peers
    sBcast,     \* broadcast store, per room code: the set ...:broadcasting
    sNames,     \* username store, per room code: the hash ...:usernames
    hubs,       \* hubManager.hubs: code -> installed hub (0: no entry)
    entryTimer, \* hubEntry.timer of the entry installed for the code (0: nil)
    mLock,      \* hubManager.mu: 0 when free, else the connection holding it
    hubRoom,    \* per hub: the code its OnEmpty closure captured ("" : not built)
    clients,    \* Hub.clients: per hub, the registered connection ids
    timers,     \* per timer: its state, or the position of its callback
    tRoom,      \* per timer: the code its callback captured
    pc,         \* per connection: position of its handler / reader goroutine
    rc,         \* per connection: the room code of its /ws request
    hubOf,      \* per connection: the hub that HubForRoom returned (0: none)
    snap,       \* per connection: the snapshot its goroutine is reading
    arg,        \* per connection: the enabled flag of the broadcast in hand
    queue,      \* per connection: frames in its send channel, oldest first
    client,     \* per connection: the browser's peerId, peers and broadcasting
    hist,       \* per connection: what the browser has received so far
    rejoined,   \* connections whose HubForRoom call stopped an armed idle timer
    inputs,     \* client inputs that this run may still take
    sig,        \* per connection: the signal its reader is forwarding, with its target
    life,       \* per connection: its socket, its context and its writer
    drops,      \* inbound frames that readPump and handleInbound have dropped
    stamp,      \* room registry: created_at that Create wrote for the code (0: none)
    call,       \* per caller of the room store: the call it is in, and its result
    now,        \* the clock that time.Now reads
    trip,       \* presence store: its state before an AddPeer / RemovePeer pair
    web,        \* per connection: the WebRTCClient in the browser
    byID,       \* ids given to Accept: client.id per connection, and Hub.clients
                \* as the map from an id to the connection registered under it
    mu,         \* Hub.mu (its writer and its readers) and hubManager.mu (its
                \* holder), as the goroutines below take and release them
    gor         \* per goroutine: the function it runs and the statement it is at

vars == <<rooms, creates, sPeers, sBcast, sNames, hubs, entryTimer, mLock,
          hubRoom, clients, timers, tRoom, pc, rc, hubOf, snap, arg, queue,
          client, hist, rejoined, inputs, sig, life, drops,
          stamp, call, now, trip, web, byID, mu, gor>>

mgrVars == <<hubs, entryTimer, mLock, hubRoom, timers, tRoom>>
storeVars == <<sPeers, sBcast, sNames>>
roomVars == <<rooms, creates>>
cliVars == <<client, hist, rejoined>>
\* What only signal forwarding, the socket's failures and dropped frames change.
lockVars == <<mu, gor>>
ext2 == <<stamp, call, now, trip, web, byID, lockVars>>
ext == <<sig, life, drops, ext2>>

\* ------------------------------------------------------------- helpers

NoNames == [c \in Conns |-> NoName]
\* A snapshot in the making.  Besides the three lists it reads, it remembers the
\* peers that were half evicted (out of presence, not yet out of the other two
\* stores) when it read presence.
EmptySnap == [peers |-> {}, bcast |-> {}, names |-> NoNames, gone |-> {}]
NoClient == [peerId |-> 0, peers |-> {}, broadcasting |-> {}]
\* What a browser has received: the ids whose peer-left it got, the ids that a
\* later snapshot still listed, and the peers of its latest welcome or peer-joined.
NoHist == [left |-> {}, stale |-> {}, wj |-> {}]
\* No signal in hand.
NoSig == [to |-> 0, data |-> 0]
\* A connection whose socket is open, whose context is not cancelled and whose
\* writer runs.
Alive == [sock |-> "open", done |-> FALSE, writer |-> TRUE]

\* The ids that have a username in a usernames map.
Named(names) == {c \in Conns : names[c] # NoName}

\* strings.TrimSpace on a name.
RECURSIVE TrimLeft(_)
TrimLeft(s) == IF s # <<>> /\ Head(s) = " " THEN TrimLeft(Tail(s)) ELSE s
RECURSIVE TrimRight(_)
TrimRight(s) ==
    IF s # <<>> /\ s[Len(s)] = " " THEN TrimRight(SubSeq(s, 1, Len(s) - 1)) ELSE s
TrimSpace(s) == TrimRight(TrimLeft(s))

\* One presence for all hubs.
RoomOf_Global(c) == "r1"

\* The room a connection's hub serves: the code captured when the hub was built.
RoomOf(c) == hubRoom[hubOf[c]]

P(ph, at) == [ph |-> ph, at |-> at]
Idle == P("idle", "")

\* The connections whose request or frame the server is working on, and whether
\* it can take on one more.
Active == {c \in Conns : pc[c].ph \in {"ws", "hfr", "reg", "bc", "nm", "sg", "un"}}
CanAccept == Cardinality(Active) < MaxActive

\* protocol.StateMessage, with the fields the hub fills in.
StateMessage(type, id, s, enabled) ==
    [type |-> type, id |-> id, peers |-> s.peers, bcast |-> s.bcast,
     names |-> s.names, enabled |-> enabled]

\* A send that does not look at the room left in the channel.
sendJSON_Unbounded(q, f) == Append(q, f)

\* client.sendJSON: a non-blocking send that drops the frame when the channel is full.
sendJSON(q, f) == IF Len(q) < SendCap THEN Append(q, f) ELSE q

\* Hub.broadcast: under the read lock, a non-blocking send to every registered
\* client except skipID.
broadcast(h, f, skipID) ==
    [c \in Conns |->
        IF c \in clients[h] /\ c # skipID THEN sendJSON(queue[c], f) ELSE queue[c]]

\* The smallest member of a non-empty set of numbers.
Least(S) == CHOOSE x \in S : \A y \in S : x <= y

\* ------------------------------------------------------------------ Init

\* ------------------------------------------- the browser: WebRTCClient

\* ICE candidates that one peer connection gathers in a run.
MaxCands == 3
\* sendOffer defers an offer while offerRetryCount < 8.
MaxRetries == 8

\* Payloads of signal frames: a session description or an ICE candidate.
Desc(type) == [k |-> type, n |-> 0]
Cand(n) == [k |-> "cand", n |-> n]

\* A negotiation slot as getNegotiationState creates it (on: the map holds it).
NoSlot ==
    [on |-> FALSE, polite |-> FALSE, makingOffer |-> FALSE, ignoreOffer |-> FALSE,
     isSettingRemoteAnswerPending |-> FALSE, pendingCandidates |-> <<>>,
     offerRetryCount |-> 0, offerRetryTimer |-> 0]

\* An RTCPeerConnection: its signaling state, its pending local description, its
\* current and pending remote descriptions, the candidates added to it and the
\* candidates it has gathered, its connection state, and its operations chain
\* (the promise-returning calls made on it that have not settled, oldest first).
NoPC ==
    [on |-> FALSE, signalingState |-> "closed", local |-> "none",
     currentRemote |-> FALSE, pendingRemote |-> FALSE, added |-> <<>>,
     gathered |-> 0, connectionState |-> "closed", chain |-> <<>>]
NewPC ==
    [NoPC EXCEPT !.on = TRUE, !.signalingState = "stable", !.connectionState = "new"]

\* pc.remoteDescription is set.
RemoteDescription(p) == p.pendingRemote \/ p.currentRemote

\* A WebRTCClient before connect() has received anything.  timeouts are the
\* pending setTimeout callbacks, out the frames given to socket.send that the
\* hub has not read, ev what the client has done to whom so far.
NoWeb ==
    [broadcastEnabled |-> FALSE,
     negotiation |-> [id \in Conns |-> NoSlot],
     connections |-> [id \in Conns |-> NoPC],
     remoteStreams |-> {},
     timeouts |-> {},
     out |-> <<>>,
     ev |-> {}]

\* A call on the operations chain with the continuation that awaits it: fn is
\* the function that made the call, type the description handleSignal is
\* working on, queued the candidate that is being added followed by those its
\* flush has still to add, coll whether its offer collided.
Op(op, what, fn, type, queued, coll) ==
    [op |-> op, arg |-> what, fn |-> fn, type |-> type, queued |-> queued, coll |-> coll]

Enqueue(b, id, o) == [b EXCEPT !.connections[id].chain = Append(@, o)]
Note(b, what, id) == [b EXCEPT !.ev = @ \cup {<<what, id>>}]

\* WebRTCClient.send of a signal frame.
send(b, id, data) == [b EXCEPT !.out = Append(@, [type |-> "signal", to |-> id, data |-> data])]

\* Every client is polite to every peer.
isPoliteForPeer_Always(self, id) == TRUE

\* WebRTCClient.isPoliteForPeer: a client without peerId is polite to everybody;
\* otherwise the one whose id sorts first is.
isPoliteForPeer(self, id) == IF self = 0 THEN TRUE ELSE self < id

getNegotiationState(b, self, id) ==
    IF b.negotiation[id].on THEN b
    ELSE [b EXCEPT !.negotiation[id] =
             [NoSlot EXCEPT !.on = TRUE, !.polite = isPoliteForPeer(self, id)]]

updatePoliteFlags(b, self) ==
    [b EXCEPT !.negotiation =
        [id \in Conns |-> IF @[id].on
                          THEN [@[id] EXCEPT !.polite = isPoliteForPeer(self, id)]
                          ELSE @[id]]]

getOrCreateConnection(b, self, id) ==
    IF b.connections[id].on THEN b
    ELSE [getNegotiationState(b, self, id) EXCEPT !.connections[id] = NewPC]

\* setTimeout: a handle that no pending callback and no slot holds.
NewHandle(b) ==
    CHOOSE h \in 1..(2 * MaxConns) :
        /\ \A t \in b.timeouts : t.h # h
        /\ \A id \in Conns : b.negotiation[id].offerRetryTimer # h

\* A clearTimeout that cancels nothing.
clearTimeout_Forget(b, h) == b

clearTimeout(b, h) == [b EXCEPT !.timeouts = {t \in @ : t.h # h}]

\* A sendOffer that does not look at makingOffer before it creates an offer.
sendOffer_NoSkip(b, self, id) ==
    IF ~b.broadcastEnabled THEN b
    ELSE
      LET b1 == getNegotiationState(getOrCreateConnection(b, self, id), self, id)
          b2 == [clearTimeout(b1, b1.negotiation[id].offerRetryTimer)
                    EXCEPT !.negotiation[id].offerRetryTimer = 0]
      IN
      IF b2.connections[id].signalingState # "stable"
      THEN IF b2.negotiation[id].offerRetryCount < MaxRetries
           THEN [b2 EXCEPT !.negotiation[id].offerRetryCount = @ + 1,
                           !.negotiation[id].offerRetryTimer = NewHandle(b2),
                           !.timeouts = @ \cup {[h |-> NewHandle(b2), id |-> id]}]
           ELSE b2
      ELSE Enqueue([b2 EXCEPT !.negotiation[id].makingOffer = TRUE], id,
                   Op("createOffer", "", "sendOffer", "", <<>>, FALSE))

\* WebRTCClient.sendOffer up to its first await.
sendOffer(b, self, id) ==
    IF ~b.broadcastEnabled THEN b
    ELSE
      LET b1 == getNegotiationState(getOrCreateConnection(b, self, id), self, id)
          b2 == [clearTimeout(b1, b1.negotiation[id].offerRetryTimer)
                    EXCEPT !.negotiation[id].offerRetryTimer = 0]
      IN
      IF b2.connections[id].signalingState # "stable"
      THEN IF b2.negotiation[id].offerRetryCount < MaxRetries
           THEN [b2 EXCEPT !.negotiation[id].offerRetryCount = @ + 1,
                           !.negotiation[id].offerRetryTimer = NewHandle(b2),
                           !.timeouts = @ \cup {[h |-> NewHandle(b2), id |-> id]}]
           ELSE b2
      ELSE IF b2.negotiation[id].makingOffer THEN b2
      ELSE Enqueue([b2 EXCEPT !.negotiation[id].makingOffer = TRUE], id,
                   Op("createOffer", "", "sendOffer", "", <<>>, FALSE))

\* WebRTCClient.handleSignal up to its first await.
handleSignal(b, self, from, data) ==
    LET b1 == getNegotiationState(getOrCreateConnection(b, self, from), self, from)
        s == b1.negotiation[from]
        p == b1.connections[from]
    IN
    IF data.k \in {"offer", "answer"}
    THEN LET offerCollision ==
                 /\ data.k = "offer"
                 /\ \/ s.makingOffer
                    \/ p.signalingState # "stable"
                    \/ s.isSettingRemoteAnswerPending
             b2 == [b1 EXCEPT !.negotiation[from].ignoreOffer =
                                 ~s.polite /\ offerCollision]
             b3 == IF offerCollision THEN Note(b2, "collision", from) ELSE b2
         IN
         IF b3.negotiation[from].ignoreOffer THEN Note(b3, "ignored", from)
         ELSE IF offerCollision /\ s.polite
         THEN Enqueue(b3, from,
                      Op("setLocalDescription", "rollback", "sdp", data.k, <<>>, TRUE))
         ELSE Enqueue([b3 EXCEPT !.negotiation[from].isSettingRemoteAnswerPending =
                                    (data.k = "answer")],
                      from,
                      Op("setRemoteDescription", data.k, "sdp", data.k, <<>>, FALSE))
    ELSE IF s.ignoreOffer THEN Note(b1, "dropped", from)
    ELSE IF ~RemoteDescription(p)
    THEN [b1 EXCEPT !.negotiation[from].pendingCandidates = Append(@, data.n)]
    ELSE Enqueue(b1, from, Op("addIceCandidate", "", "cand", "", <<data.n>>, FALSE))

\* handleSignal after setRemoteDescription has resolved: the queued candidates
\* are copied and added one by one, then an offer is answered.
AfterRemote(b, id, o) ==
    LET b1 == [b EXCEPT !.negotiation[id].isSettingRemoteAnswerPending = FALSE]
        q == b1.negotiation[id].pendingCandidates
    IN
    IF q # <<>> /\ RemoteDescription(b1.connections[id])
    THEN Enqueue([b1 EXCEPT !.negotiation[id].pendingCandidates = <<>>], id,
                 Op("addIceCandidate", "", "flush", o.type, q, o.coll))
    ELSE IF o.type = "offer"
    THEN Enqueue(b1, id, Op("createAnswer", "", "sdp", o.type, <<>>, o.coll))
    ELSE b1

\* pc.addIceCandidate: the candidate is added when a remote description is set,
\* and rejected otherwise.
addIceCandidate(p, n) ==
    IF RemoteDescription(p) THEN [p EXCEPT !.added = Append(@, n)] ELSE p

\* The oldest call on the chain of the connection to id settles, and the
\* function that awaits it runs on to its next await or to its end.  The
\* state changes of the calls follow the signaling state machine of
\* RTCPeerConnection: a call that the state does not allow is rejected.
Settle(b, id) ==
    LET p == b.connections[id]
        o == Head(p.chain)
        b0 == [b EXCEPT !.connections[id].chain = Tail(@)]
        finally(x) == [x EXCEPT !.negotiation[id].makingOffer = FALSE,
                                !.negotiation[id].offerRetryCount = 0]
    IN
    CASE o.op = "createOffer" ->
           Enqueue(b0, id, Op("setLocalDescription", "offer", "sendOffer", "", <<>>, FALSE))
      [] o.op = "setLocalDescription" /\ o.arg = "offer" ->
           IF p.signalingState \in {"stable", "have-local-offer"}
           THEN finally(Note(send([b0 EXCEPT !.connections[id].signalingState = "have-local-offer",
                                             !.connections[id].local = "offer"],
                                  id, Desc("offer")),
                             IF <<"sent-offer", id>> \in b.ev
                             THEN "sent-offer-again" ELSE "sent-offer", id))
           ELSE finally(b0)
      [] o.op = "setLocalDescription" /\ o.arg = "rollback" ->
           LET b1 == IF p.signalingState = "have-local-offer"
                     THEN Note([b0 EXCEPT !.connections[id].signalingState = "stable",
                                          !.connections[id].local = "none"],
                               "rolled-back", id)
                     ELSE IF p.signalingState = "have-remote-offer"
                     THEN [b0 EXCEPT !.connections[id].signalingState = "stable",
                                     !.connections[id].pendingRemote = FALSE]
                     ELSE b0
           IN Enqueue([b1 EXCEPT !.negotiation[id].isSettingRemoteAnswerPending =
                                    (o.type = "answer")],
                      id, Op("setRemoteDescription", o.type, "sdp", o.type, <<>>, o.coll))
      [] o.op = "setRemoteDescription" /\ o.arg = "offer" ->
           AfterRemote(
               Note(IF p.signalingState = "have-local-offer"
                    THEN Note([b0 EXCEPT !.connections[id].signalingState = "have-remote-offer",
                                         !.connections[id].local = "none",
                                         !.connections[id].pendingRemote = TRUE],
                              "rolled-back", id)
                    ELSE [b0 EXCEPT !.connections[id].signalingState = "have-remote-offer",
                                    !.connections[id].pendingRemote = TRUE],
                    "applied-offer", id),
               id, o)
      [] o.op = "setRemoteDescription" /\ o.arg = "answer" ->
           IF p.signalingState = "have-local-offer"
           THEN AfterRemote(
                    Note([b0 EXCEPT !.connections[id].signalingState = "stable",
                                    !.connections[id].currentRemote = TRUE,
                                    !.connections[id].pendingRemote = FALSE],
                         "applied-answer", id),
                    id, o)
           ELSE Note(b0, "error", id)
      [] o.op = "addIceCandidate" ->
           LET b1 == [b0 EXCEPT !.connections[id] = addIceCandidate(@, Head(o.queued))]
           IN IF o.fn = "flush" /\ Tail(o.queued) # <<>>
              THEN Enqueue(b1, id, Op("addIceCandidate", "", "flush", o.type,
                                      Tail(o.queued), o.coll))
              ELSE IF o.fn = "flush" /\ o.type = "offer"
              THEN Enqueue(b1, id, Op("createAnswer", "", "sdp", o.type, <<>>, o.coll))
              ELSE b1
      [] o.op = "createAnswer" ->
           IF p.signalingState = "have-remote-offer"
           THEN Enqueue(b0, id, Op("setLocalDescription", "answer", "sdp", o.type,
                                   <<>>, o.coll))
           ELSE Note(b0, "error", id)
      [] o.op = "setLocalDescription" /\ o.arg = "answer" ->
           IF p.signalingState = "have-remote-offer"
           THEN Note(send([b0 EXCEPT !.connections[id].signalingState = "stable",
                                     !.connections[id].local = "answer",
                                     !.connections[id].currentRemote = TRUE,
                                     !.connections[id].pendingRemote = FALSE],
                          id, Desc("answer")),
                     IF o.coll THEN "answered-glare" ELSE "answered", id)
           ELSE Note(b0, "error", id)

removeRemoteStream(b, id) == [b EXCEPT !.remoteStreams = @ \ {id}]

\* WebRTCClient.removePeer: the connection is closed and forgotten, the retry
\* timer of the slot is cleared, the slot is deleted, the stream is removed.
removePeer(b, id) ==
    removeRemoteStream(
        [clearTimeout(b, b.negotiation[id].offerRetryTimer)
            EXCEPT !.connections[id] = NoPC, !.negotiation[id] = NoSlot],
        id)

\* WebRTCClient.handleState after the two lists are taken over: welcome sets
\* peerId (self is the id after it) and recomputes the polite flags, peer-left
\* removes the peer, a broadcast-state that switches a peer off removes its
\* stream, and peer-joined makes an offer to the new peer.
handleStateRest(b, self, f) ==
    LET b1 == IF f.type = "welcome" /\ f.id # 0 THEN updatePoliteFlags(b, self) ELSE b
        b2 == IF f.type = "peer-left" /\ f.id # 0 THEN removePeer(b1, f.id) ELSE b1
        b3 == IF f.type = "broadcast-state" /\ f.id # 0 /\ f.enabled = <<FALSE>>
              THEN removeRemoteStream(
                       [b2 EXCEPT !.broadcastEnabled = IF f.id = self THEN FALSE ELSE @],
                       f.id)
              ELSE b2
    IN IF f.type = "peer-joined" /\ f.id # 0 THEN sendOffer(b3, self, f.id) ELSE b3

\* Callers of the room store (HTTP handlers and cleanup callbacks) that exist.
MaxCallers == 2
\* Calls of the room store in a run.
RoomCalls == 3
\* Create draws a code at most five times: for i := 0; i < 5; i++.
MaxTries == 5
Callers == 1..MaxCallers

\* A caller that is in no call.
NoCall == [op |-> "none", ph |-> "idle", code |-> NoCode, i |-> 0, err |-> "", at |-> 0]
\* No AddPeer / RemovePeer pair is under way.
NoTrip == [ph |-> "idle", room |-> NoCode, id |-> 0,
           peers |-> {}, bcast |-> {}, names |-> NoNames]

\* No connection has been accepted under an id of the caller's choice.
NoByID == [id |-> [c \in Conns |-> 0], clients |-> [i \in Conns |-> 0]]

\* Goroutines that run functions of the hub and of the manager at a time.
MaxGoroutines == 2
Goroutines == 1..MaxGoroutines

\* Hub.mu, a sync.RWMutex, unlocked: no writer (0) and no readers.
NoMu == [w |-> 0, r |-> {}]

\* A goroutine that runs none of the functions.
NoCallee == [fn |-> "", at |-> 0]

InitExt2 ==
    /\ stamp = [r \in AllRooms |-> 0]
    /\ call = [p \in Callers |-> NoCall]
    /\ now = 1
    /\ trip = NoTrip
    /\ web = [c \in Conns |-> NoWeb]
    /\ byID = NoByID
    /\ mu = NoMu
    /\ gor = [g \in Goroutines |-> NoCallee]

InitWith(n) ==
    /\ rooms = {}
    /\ creates = 0
    /\ sPeers = [r \in AllRooms |-> {}]
    /\ sBcast = [r \in AllRooms |-> {}]
    /\ sNames = [r \in AllRooms |-> NoNames]
    /\ hubs = [r \in AllRooms |-> 0]
    /\ entryTimer = [r \in AllRooms |-> 0]
    /\ mLock = 0
    /\ hubRoom = [h \in Hubs |-> NoCode]
    /\ clients = [h \in Hubs |-> {}]
    /\ timers = [t \in Timers |-> "none"]
    /\ tRoom = [t \in Timers |-> NoCode]
    /\ pc = [c \in Conns |-> Idle]
    /\ rc = [c \in Conns |-> NoCode]
    /\ hubOf = [c \in Conns |-> 0]
    /\ snap = [c \in Conns |-> EmptySnap]
    /\ arg = [c \in Conns |-> FALSE]
    /\ queue = [c \in Conns |-> <<>>]
    /\ client = [c \in Conns |-> NoClient]
    /\ hist = [c \in Conns |-> NoHist]
    /\ rejoined = {}
    /\ inputs = n
    /\ sig = [c \in Conns |-> NoSig]
    /\ life = [c \in Conns |-> Alive]
    /\ drops = 0
    /\ InitExt2

Init == InitWith(MaxInputs)

\* ---------------------------------------------------------- room registry

\* RedisStore.Create: draw a code; a code that has a record is skipped (with one
\* code to draw from, every retry collides and Create fails).
Create ==
    /\ creates < MaxCreates
    /\ creates' = creates + 1
    /\ \E code \in Rooms :
         rooms' = IF code \in rooms THEN rooms ELSE rooms \cup {code}
    /\ UNCHANGED <<storeVars, mgrVars, clients, pc, rc, hubOf, snap, arg, queue,
                   cliVars, inputs,
                   ext>>

\* ------------------------------------------------------ /ws request handler

\* WSHandler up to the room-code check: a missing code is answered 400.
WSHandler(c, code) ==
    /\ inputs > 0
    /\ CanAccept
    /\ \E d \in Conns : pc[d] = Idle
    /\ c = Least({d \in Conns : pc[d] = Idle})
    /\ inputs' = inputs - 1
    /\ rc' = [rc EXCEPT ![c] = code]
    /\ pc' = [pc EXCEPT ![c] = IF code = NoCode THEN P("done", "400") ELSE P("ws", "get")]
    /\ UNCHANGED <<roomVars, storeVars, mgrVars, clients, hubOf, snap, arg, queue,
                   cliVars,
                   ext>>

\* WSHandler: roomStore.Get; ErrNotFound is answered 404.
WSGet(c) ==
    /\ pc[c] = P("ws", "get")
    /\ pc' = [pc EXCEPT ![c] = IF rc[c] \in rooms THEN P("ws", "hub") ELSE P("done", "404")]
    /\ UNCHANGED <<roomVars, storeVars, mgrVars, clients, rc, hubOf, snap, arg, queue,
                   cliVars, inputs,
                   ext>>

\* time.Timer.Stop: an armed timer is disarmed; one that has fired runs on.
Stop(t) == [timers EXCEPT ![t] = IF @ = "armed" THEN "none" ELSE @]

\* hubManager.hubForRoom when the map has an entry: cancel its timer, return its hub.
hubForRoomReuse(c) ==
    /\ pc[c] = P("ws", "hub")
    /\ mLock = 0
    /\ hubs[rc[c]] # 0
    /\ timers' = IF entryTimer[rc[c]] # 0 THEN Stop(entryTimer[rc[c]]) ELSE timers
    /\ entryTimer' = [entryTimer EXCEPT ![rc[c]] = 0]
    /\ hubOf' = [hubOf EXCEPT ![c] = hubs[rc[c]]]
    /\ pc' = [pc EXCEPT ![c] = P("ws", "upgrade")]
    /\ rejoined' = IF entryTimer[rc[c]] # 0 /\ timers[entryTimer[rc[c]]] = "armed"
                   THEN rejoined \cup {c} ELSE rejoined
    /\ UNCHANGED <<roomVars, storeVars, hubs, mLock, hubRoom, tRoom, clients, rc,
                   snap, arg, queue, client, hist, inputs,
                   ext>>

\* hubManager.hubForRoom when the map has no entry: under the manager mutex,
\* reset the three stores of the code, then build and install a hub.
hubForRoomResetPresence(c) ==
    /\ pc[c] = P("ws", "hub")
    /\ mLock = 0
    /\ hubs[rc[c]] = 0
    /\ \E h \in Hubs : hubRoom[h] = NoCode
    /\ mLock' = c
    /\ sPeers' = [sPeers EXCEPT ![rc[c]] = {}]
    /\ pc' = [pc EXCEPT ![c] = P("hfr", "bcast")]
    /\ UNCHANGED <<roomVars, sBcast, sNames, hubs, entryTimer, hubRoom, timers, tRoom,
                   clients, rc, hubOf, snap, arg, queue, cliVars, inputs,
                   ext>>

hubForRoomResetBcast(c) ==
    /\ pc[c] = P("hfr", "bcast")
    /\ sBcast' = [sBcast EXCEPT ![rc[c]] = {}]
    /\ pc' = [pc EXCEPT ![c] = P("hfr", "names")]
    /\ UNCHANGED <<roomVars, sPeers, sNames, mgrVars, clients, rc, hubOf, snap, arg,
                   queue, cliVars, inputs,
                   ext>>

hubForRoomInstall(c) ==
    /\ pc[c] = P("hfr", "names")
    /\ sNames' = [sNames EXCEPT ![rc[c]] = NoNames]
    /\ LET h == Least({x \in Hubs : hubRoom[x] = NoCode}) IN
         /\ hubRoom' = [hubRoom EXCEPT ![h] = rc[c]]
         /\ hubs' = [hubs EXCEPT ![rc[c]] = h]
         /\ hubOf' = [hubOf EXCEPT ![c] = h]
    /\ entryTimer' = [entryTimer EXCEPT ![rc[c]] = 0]
    /\ mLock' = 0
    /\ pc' = [pc EXCEPT ![c] = P("ws", "upgrade")]
    /\ UNCHANGED <<roomVars, sPeers, sBcast, timers, tRoom, clients, rc, snap, arg,
                   queue, cliVars, inputs,
                   ext>>

\* Hub.HTTPHandler: the upgrade fails and the handler returns.
UpgradeFail(c) ==
    /\ pc[c] = P("ws", "upgrade")
    /\ pc' = [pc EXCEPT ![c] = P("done", "upgrade")]
    /\ hubOf' = [hubOf EXCEPT ![c] = 0]
    /\ rejoined' = rejoined \ {c}
    /\ UNCHANGED <<roomVars, storeVars, mgrVars, clients, rc, snap, arg, queue,
                   client, hist, inputs,
                   ext>>

\* Hub.HTTPHandler, Hub.Accept and the first step of Hub.register: the upgrade
\* succeeds, the client gets a fresh id and is put into the registry.
registerInsert(c) ==
    /\ pc[c] = P("ws", "upgrade")
    /\ clients' = [clients EXCEPT ![hubOf[c]] = @ \cup {c}]
    /\ pc' = [pc EXCEPT ![c] = P("reg", "add")]
    /\ UNCHANGED <<roomVars, storeVars, mgrVars, rc, hubOf, snap, arg, queue,
                   cliVars, inputs,
                   ext>>

\* Hub.register: presence.AddPeer.
registerAddPeer(c) ==
    /\ pc[c] = P("reg", "add")
    /\ sPeers' = [sPeers EXCEPT ![RoomOf(c)] = @ \cup {c}]
    /\ pc' = [pc EXCEPT ![c] = P("reg", "peers")]
    /\ UNCHANGED <<roomVars, sBcast, sNames, mgrVars, clients, rc, hubOf, snap, arg,
                   queue, cliVars, inputs,
                   ext>>

\* ------------------------------------------------------------ Hub.snapshot

\* A connection inside Hub.unregister whose presence.RemovePeer has returned and
\* whose usernames.RemovePeer has not.
HalfEvicted(x) == pc[x] \in {P("un", "rmBcast"), P("un", "rmNames")}

\* Hub.snapshot reads the three stores one after the other: presence.Peers,
Snapshotting(c) == pc[c].ph \in {"reg", "bc", "nm", "un"}

snapshotPeers(c) ==
    /\ Snapshotting(c)
    /\ pc[c].at = "peers"
    /\ snap' = [snap EXCEPT ![c].peers = sPeers[RoomOf(c)],
                            ![c].gone = {x \in Conns : HalfEvicted(x)}]
    /\ pc' = [pc EXCEPT ![c].at = "bcast"]
    /\ UNCHANGED <<roomVars, storeVars, mgrVars, clients, rc, hubOf, arg, queue,
                   cliVars, inputs,
                   ext>>

\* then broadcasts.Broadcasting,
snapshotBroadcasting(c) ==
    /\ Snapshotting(c)
    /\ pc[c].at = "bcast"
    /\ snap' = [snap EXCEPT ![c].bcast = sBcast[RoomOf(c)]]
    /\ pc' = [pc EXCEPT ![c].at = "names"]
    /\ UNCHANGED <<roomVars, storeVars, mgrVars, clients, rc, hubOf, arg, queue,
                   cliVars, inputs,
                   ext>>

\* then usernames.Usernames.
snapshotUsernames(c) ==
    /\ Snapshotting(c)
    /\ pc[c].at = "names"
    /\ snap' = [snap EXCEPT ![c].names = sNames[RoomOf(c)]]
    /\ pc' = [pc EXCEPT ![c].at = "send"]
    /\ UNCHANGED <<roomVars, storeVars, mgrVars, clients, rc, hubOf, arg, queue,
                   cliVars, inputs,
                   ext>>

\* ------------------------------------------------------------ Hub.register

\* Hub.register: the welcome goes to the new client's own channel.
registerWelcome(c) ==
    /\ pc[c] = P("reg", "send")
    /\ queue' = [queue EXCEPT ![c] = sendJSON(@, StateMessage("welcome", c, snap[c], <<>>))]
    /\ pc' = [pc EXCEPT ![c] = P("reg", "join")]
    /\ UNCHANGED <<roomVars, storeVars, mgrVars, clients, rc, hubOf, snap, arg,
                   cliVars, inputs,
                   ext>>

\* Hub.register: peer-joined goes to everybody else; Accept then starts the
\* writer and the reader of the connection.
registerJoined(c) ==
    /\ pc[c] = P("reg", "join")
    /\ queue' = broadcast(hubOf[c], StateMessage("peer-joined", c, snap[c], <<>>), c)
    /\ snap' = [snap EXCEPT ![c] = EmptySnap]
    /\ pc' = [pc EXCEPT ![c] = P("run", "")]
    /\ UNCHANGED <<roomVars, storeVars, mgrVars, clients, rc, hubOf, arg,
                   cliVars, inputs,
                   ext>>

\* ------------------------------------------------------ Hub.handleInbound

\* An update that adds the id to the set whatever enabled says.
updateBroadcast_AlwaysOn(c, enabled) ==
    /\ pc[c] = P("run", "")
    /\ CanAccept
    /\ inputs > 0
    /\ inputs' = inputs - 1
    /\ sBcast' = [sBcast EXCEPT ![RoomOf(c)] = @ \cup {c}]
    /\ arg' = [arg EXCEPT ![c] = enabled]
    /\ pc' = [pc EXCEPT ![c] = P("bc", "peers")]
    /\ UNCHANGED <<roomVars, sPeers, sNames, mgrVars, clients, rc, hubOf, snap, queue,
                   cliVars,
                   ext>>

\* A "broadcast" frame with enabled set: Hub.updateBroadcast calls SetBroadcast.
updateBroadcast(c, enabled) ==
    /\ pc[c] = P("run", "")
    /\ CanAccept
    /\ inputs > 0
    /\ inputs' = inputs - 1
    /\ sBcast' = [sBcast EXCEPT ![RoomOf(c)] = IF enabled THEN @ \cup {c} ELSE @ \ {c}]
    /\ arg' = [arg EXCEPT ![c] = enabled]
    /\ pc' = [pc EXCEPT ![c] = P("bc", "peers")]
    /\ UNCHANGED <<roomVars, sPeers, sNames, mgrVars, clients, rc, hubOf, snap, queue,
                   cliVars,
                   ext>>

\* Hub.updateBroadcast: broadcast-state goes to every registered client.
updateBroadcastSend(c) ==
    /\ pc[c] = P("bc", "send")
    /\ queue' = broadcast(hubOf[c], StateMessage("broadcast-state", c, snap[c], <<arg[c]>>), 0)
    /\ snap' = [snap EXCEPT ![c] = EmptySnap]
    /\ arg' = [arg EXCEPT ![c] = FALSE]
    /\ pc' = [pc EXCEPT ![c] = P("run", "")]
    /\ UNCHANGED <<roomVars, storeVars, mgrVars, clients, rc, hubOf, cliVars, inputs,
                   ext>>

\* usernames.RedisStore.SetUsername: an empty name deletes the field.
SetUsername(names, id, username) ==
    [names EXCEPT ![id] = TrimSpace(username)]

\* A "set-username" frame: the name is trimmed and stored.
setUsername(c, raw) ==
    /\ pc[c] = P("run", "")
    /\ CanAccept
    /\ inputs > 0
    /\ inputs' = inputs - 1
    /\ sNames' = [sNames EXCEPT ![RoomOf(c)] = SetUsername(@, c, TrimSpace(raw))]
    /\ pc' = [pc EXCEPT ![c] = P("nm", "peers")]
    /\ UNCHANGED <<roomVars, sPeers, sBcast, mgrVars, clients, rc, hubOf, snap, arg,
                   queue, cliVars,
                   ext>>

\* Hub.publishPresence: "usernames" goes to every registered client.
publishPresence(c) ==
    /\ pc[c] = P("nm", "send")
    /\ queue' = broadcast(hubOf[c], StateMessage("usernames", c, snap[c], <<>>), 0)
    /\ snap' = [snap EXCEPT ![c] = EmptySnap]
    /\ pc' = [pc EXCEPT ![c] = P("run", "")]
    /\ UNCHANGED <<roomVars, storeVars, mgrVars, clients, rc, hubOf, arg, cliVars,
                   inputs,
                   ext>>

\* ---------------------------------------------------------- Hub.unregister

\* client.readPump: ReadMessage fails (close frame, read error, deadline) and the
\* deferred Hub.unregister takes the client out of the registry.  Frames still
\* buffered for a connection whose read side has failed reach nobody, and the
\* browser's view of the room ends with its socket.
unregisterDelete(c) ==
    /\ pc[c] = P("run", "")
    /\ CanAccept
    /\ clients' = [clients EXCEPT ![hubOf[c]] = @ \ {c}]
    /\ queue' = [queue EXCEPT ![c] = <<>>]
    /\ client' = [client EXCEPT ![c] = NoClient]
    /\ hist' = [hist EXCEPT ![c] = NoHist]
    /\ rejoined' = rejoined \ {c}
    /\ pc' = [pc EXCEPT ![c] = P("un", "rmPeers")]
    /\ UNCHANGED <<roomVars, storeVars, mgrVars, rc, hubOf, snap, arg, inputs,
                   ext>>

\* Hub.unregister: presence.RemovePeer,
unregisterRemovePeer(c) ==
    /\ pc[c] = P("un", "rmPeers")
    /\ sPeers' = [sPeers EXCEPT ![RoomOf(c)] = @ \ {c}]
    /\ pc' = [pc EXCEPT ![c] = P("un", "rmBcast")]
    /\ UNCHANGED <<roomVars, sBcast, sNames, mgrVars, clients, rc, hubOf, snap, arg,
                   queue, cliVars, inputs,
                   ext>>

\* then broadcasts.RemovePeer,
unregisterRemoveBroadcast(c) ==
    /\ pc[c] = P("un", "rmBcast")
    /\ sBcast' = [sBcast EXCEPT ![RoomOf(c)] = @ \ {c}]
    /\ pc' = [pc EXCEPT ![c] = P("un", "rmNames")]
    /\ UNCHANGED <<roomVars, sPeers, sNames, mgrVars, clients, rc, hubOf, snap, arg,
                   queue, cliVars, inputs,
                   ext>>

\* then usernames.RemovePeer.
unregisterRemoveUsername(c) ==
    /\ pc[c] = P("un", "rmNames")
    /\ sNames' = [sNames EXCEPT ![RoomOf(c)][c] = NoName]
    /\ pc' = [pc EXCEPT ![c] = P("un", "peers")]
    /\ UNCHANGED <<roomVars, sPeers, sBcast, mgrVars, clients, rc, hubOf, snap, arg,
                   queue, cliVars, inputs,
                   ext>>

\* Hub.unregister: peer-left goes to the clients still registered; OnEmpty is
\* called next when the snapshot has no peers.
unregisterLeft(c) ==
    /\ pc[c] = P("un", "send")
    /\ queue' = broadcast(hubOf[c], StateMessage("peer-left", c, snap[c], <<>>), c)
    /\ snap' = [snap EXCEPT ![c] = EmptySnap]
    /\ pc' = [pc EXCEPT ![c] = IF snap[c].peers = {} THEN P("un", "empty") ELSE P("un", "close")]
    /\ UNCHANGED <<roomVars, storeVars, mgrVars, clients, rc, hubOf, arg, cliVars,
                   inputs,
                   ext>>

\* hubManager.scheduleCleanup, called as OnEmpty: with an entry for the code and
\* no timer in it, arm a timer whose callback is cleanupRoom(code).
scheduleCleanup(c) ==
    /\ pc[c] = P("un", "empty")
    /\ mLock = 0
    /\ LET code == RoomOf(c) IN
         IF hubs[code] = 0 \/ entryTimer[code] # 0
         THEN UNCHANGED <<timers, tRoom, entryTimer>>
         ELSE /\ \E t \in Timers : timers[t] = "none"
              /\ LET t == Least({x \in Timers : timers[x] = "none"}) IN
                   /\ timers' = [timers EXCEPT ![t] = "armed"]
                   /\ tRoom' = [tRoom EXCEPT ![t] = code]
                   /\ entryTimer' = [entryTimer EXCEPT ![code] = t]
    /\ pc' = [pc EXCEPT ![c] = P("un", "close")]
    /\ UNCHANGED <<roomVars, storeVars, hubs, mLock, hubRoom, clients, rc, hubOf,
                   snap, arg, queue, cliVars, inputs,
                   ext>>

\* client.readPump's deferred calls after unregister: conn.Close, close(c.send),
\* cancel.
readPumpClose(c) ==
    /\ pc[c] = P("un", "close")
    /\ pc' = [pc EXCEPT ![c] = P("closed", "")]
    /\ hubOf' = [hubOf EXCEPT ![c] = 0]
    /\ UNCHANGED <<roomVars, storeVars, mgrVars, clients, rc, snap, arg, queue,
                   cliVars, inputs,
                   ext>>

\* -------------------------------------------------- hubManager.cleanupRoom

\* The 30 s of an armed timer pass and its callback starts.
timerFire(t) ==
    /\ timers[t] = "armed"
    /\ timers' = [timers EXCEPT ![t] = "fired"]
    /\ UNCHANGED <<roomVars, storeVars, hubs, entryTimer, mLock, hubRoom, tRoom,
                   clients, pc, rc, hubOf, snap, arg, queue, cliVars, inputs,
                   ext>>

\* cleanupRoom: store.Peers, read without the manager mutex.
cleanupRoomPeers(t) ==
    /\ timers[t] = "fired"
    /\ timers' = [timers EXCEPT ![t] = IF sPeers[tRoom[t]] # {} THEN "abort" ELSE "resetPeers"]
    /\ UNCHANGED <<roomVars, storeVars, hubs, entryTimer, mLock, hubRoom, tRoom,
                   clients, pc, rc, hubOf, snap, arg, queue, cliVars, inputs,
                   ext>>

\* cleanupRoom with peers present: clear the entry's timer and return.
cleanupRoomAbort(t) ==
    /\ timers[t] = "abort"
    /\ mLock = 0
    /\ entryTimer' = [entryTimer EXCEPT ![tRoom[t]] = 0]
    /\ timers' = [timers EXCEPT ![t] = "none"]
    /\ tRoom' = [tRoom EXCEPT ![t] = NoCode]
    /\ UNCHANGED <<roomVars, storeVars, hubs, mLock, hubRoom, clients, pc, rc, hubOf,
                   snap, arg, queue, cliVars, inputs,
                   ext>>

\* cleanupRoom without peers: store.Reset,
cleanupRoomResetPresence(t) ==
    /\ timers[t] = "resetPeers"
    /\ sPeers' = [sPeers EXCEPT ![tRoom[t]] = {}]
    /\ timers' = [timers EXCEPT ![t] = "resetBcast"]
    /\ UNCHANGED <<roomVars, sBcast, sNames, hubs, entryTimer, mLock, hubRoom, tRoom,
                   clients, pc, rc, hubOf, snap, arg, queue, cliVars, inputs,
                   ext>>

\* bcast.Reset,
cleanupRoomResetBroadcast(t) ==
    /\ timers[t] = "resetBcast"
    /\ sBcast' = [sBcast EXCEPT ![tRoom[t]] = {}]
    /\ timers' = [timers EXCEPT ![t] = "resetNames"]
    /\ UNCHANGED <<roomVars, sPeers, sNames, hubs, entryTimer, mLock, hubRoom, tRoom,
                   clients, pc, rc, hubOf, snap, arg, queue, cliVars, inputs,
                   ext>>

\* names.Reset,
cleanupRoomResetUsernames(t) ==
    /\ timers[t] = "resetNames"
    /\ sNames' = [sNames EXCEPT ![tRoom[t]] = NoNames]
    /\ timers' = [timers EXCEPT ![t] = "deleteRoom"]
    /\ UNCHANGED <<roomVars, sPeers, sBcast, hubs, entryTimer, mLock, hubRoom, tRoom,
                   clients, pc, rc, hubOf, snap, arg, queue, cliVars, inputs,
                   ext>>

\* roomStore.Delete (ErrNotFound is ignored),
cleanupRoomDeleteRoom(t) ==
    /\ timers[t] = "deleteRoom"
    /\ rooms' = rooms \ {tRoom[t]}
    /\ timers' = [timers EXCEPT ![t] = "deleteHub"]
    /\ UNCHANGED <<creates, storeVars, hubs, entryTimer, mLock, hubRoom, tRoom,
                   clients, pc, rc, hubOf, snap, arg, queue, cliVars, inputs,
                   ext>>

\* and, under the manager mutex, delete(m.hubs, code).
cleanupRoomDeleteHub(t) ==
    /\ timers[t] = "deleteHub"
    /\ mLock = 0
    /\ hubs' = [hubs EXCEPT ![tRoom[t]] = 0]
    /\ entryTimer' = [entryTimer EXCEPT ![tRoom[t]] = 0]
    /\ timers' = [timers EXCEPT ![t] = "none"]
    /\ tRoom' = [tRoom EXCEPT ![t] = NoCode]
    /\ UNCHANGED <<roomVars, storeVars, mLock, hubRoom, clients, pc, rc, hubOf,
                   snap, arg, queue, cliVars, inputs,
                   ext>>

\* ------------------------------------------------- writePump and the browser

\* WebRTCClient.handleState: peers and broadcasting are overwritten by the
\* message's lists (an empty list is left out of the JSON, and then the old
\* value stays); a welcome sets peerId.
handleState(cl, f) ==
    [peerId |-> IF f.type = "welcome" /\ f.id # 0 THEN f.id ELSE cl.peerId,
     peers |-> IF f.peers # {} THEN f.peers ELSE cl.peers,
     broadcasting |-> IF f.bcast # {} THEN f.bcast ELSE cl.broadcasting]

\* The ids a state message lists in peers, broadcasting or usernames.
Listed(f) == f.peers \cup f.bcast \cup Named(f.names)

Received(h, f) ==
    [left |-> IF f.type = "peer-left" THEN h.left \cup {f.id} ELSE h.left,
     stale |-> h.stale \cup (h.left \cap Listed(f)),
     wj |-> IF f.type \in {"welcome", "peer-joined"} THEN f.peers ELSE h.wj]

\* WebRTCClient's onmessage switch: a "signal" frame goes to handleSignal, which
\* leaves peers and broadcasting alone; every other frame goes to handleState.
IsState(f) == f.type # "signal"

\* The writer of a connection runs from the end of Accept until the reader
\* closes the channel, its context is cancelled or a write fails; it has work
\* while the channel holds a frame and the socket is open.
Writing(c) ==
    /\ pc[c].ph \in {"run", "bc", "nm", "sg"}
    /\ queue[c] # <<>>
    /\ life[c].writer /\ life[c].sock = "open"

\* A writer that takes the newest frame of the channel.
writePump_Newest(c) ==
    /\ Writing(c)
    /\ client' = [client EXCEPT ![c] =
                     IF IsState(queue[c][Len(queue[c])])
                     THEN handleState(@, queue[c][Len(queue[c])]) ELSE @]
    /\ hist' = [hist EXCEPT ![c] =
                   IF IsState(queue[c][Len(queue[c])])
                   THEN Received(@, queue[c][Len(queue[c])]) ELSE @]
    /\ queue' = [queue EXCEPT ![c] = SubSeq(@, 1, Len(@) - 1)]
    /\ UNCHANGED <<roomVars, storeVars, mgrVars, clients, pc, rc, hubOf, snap, arg,
                   rejoined, inputs,
                   ext>>

\* client.writePump takes the oldest frame of the channel and writes it to the
\* socket; the browser handles it.
writePump(c) ==
    /\ Writing(c)
    /\ client' = [client EXCEPT ![c] =
                     IF IsState(Head(queue[c])) THEN handleState(@, Head(queue[c])) ELSE @]
    /\ hist' = [hist EXCEPT ![c] =
                   IF IsState(Head(queue[c])) THEN Received(@, Head(queue[c])) ELSE @]
    /\ queue' = [queue EXCEPT ![c] = Tail(@)]
    /\ UNCHANGED <<roomVars, storeVars, mgrVars, clients, pc, rc, hubOf, snap, arg,
                   rejoined, inputs,
                   ext>>

\* ------------------------------------------------------------------ Next

\* A writer only moves the frames of its channel to the browser, in channel
\* order, so the view a browser ends up with does not depend on when its writer
\* runs.  The writers therefore run first: a hub or client step is taken only
\* when every channel that has a writer is drained.
Drained == \A c \in Conns : ~Writing(c)

ConnStep(c) ==
    \/ Drained /\ WSGet(c)
    \/ Drained /\ hubForRoomReuse(c)
    \/ Drained /\ hubForRoomResetPresence(c)
    \/ Drained /\ hubForRoomResetBcast(c)
    \/ Drained /\ hubForRoomInstall(c)
    \/ Drained /\ registerInsert(c)
    \/ Drained /\ registerAddPeer(c)
    \/ Drained /\ snapshotPeers(c)
    \/ Drained /\ snapshotBroadcasting(c)
    \/ Drained /\ snapshotUsernames(c)
    \/ Drained /\ registerWelcome(c)
    \/ Drained /\ registerJoined(c)
    \/ Drained /\ updateBroadcastSend(c)
    \/ Drained /\ publishPresence(c)
    \/ Drained /\ unregisterRemovePeer(c)
    \/ Drained /\ unregisterRemoveBroadcast(c)
    \/ Drained /\ unregisterRemoveUsername(c)
    \/ Drained /\ unregisterLeft(c)
    \/ Drained /\ scheduleCleanup(c)
    \/ Drained /\ readPumpClose(c)

TimerStep(t) ==
    \/ Drained /\ timerFire(t)
    \/ Drained /\ cleanupRoomPeers(t)
    \/ Drained /\ cleanupRoomAbort(t)
    \/ Drained /\ cleanupRoomResetPresence(t)
    \/ Drained /\ cleanupRoomResetBroadcast(t)
    \/ Drained /\ cleanupRoomResetUsernames(t)
    \/ Drained /\ cleanupRoomDeleteRoom(t)
    \/ Drained /\ cleanupRoomDeleteHub(t)

\* What the server does by itself once it has a request or a frame in hand.
ServerStep ==
    \/ \E c \in Conns : writePump(c)
    \/ \E c \in Conns : ConnStep(c)
    \/ \E t \in Timers : TimerStep(t)

\* What clients do: create a room, open a connection, fail the handshake, send
\* a frame, go away.
ClientStep ==
    \/ Drained /\ Create
    \/ \E c \in Conns, code \in Codes : Drained /\ WSHandler(c, code)
    \/ \E c \in Conns : Drained /\ UpgradeFail(c)
    \/ \E c \in Conns, enabled \in BOOLEAN : Drained /\ updateBroadcast(c, enabled)
    \/ \E c \in Conns, raw \in RawNames : Drained /\ setUsername(c, raw)
    \/ \E c \in Conns : Drained /\ unregisterDelete(c)

Next == ServerStep \/ ClientStep

Spec == Init /\ [][Next]_vars

\* The server's own steps are taken as long as one is possible: goroutines run,
\* Redis answers, and the 30 s of an armed timer pass.  Clients owe nothing.
FairSpec == InitWith(LiveInputs) /\ [][Next]_vars /\ WF_vars(ServerStep)

\* ------------------------------------------------------------ observations

\* The connections registered in some hub, and those whose Accept has returned.
Registered(c) == hubOf[c] # 0 /\ c \in clients[hubOf[c]]
Running(c) == pc[c].ph \in {"run", "bc", "nm", "sg"}

\* C1: no snapshot that a hub goroutine has read shows a peer that was half
\* evicted when the snapshot's peers were read (and so is absent from peers) as
\* present in broadcasting or usernames.
C1_NoPartiallyEvictedPeer ==
    \A c \in Conns : \A x \in snap[c].gone :
        (Snapshotting(c) /\ pc[c].at = "send") =>
            x \notin snap[c].bcast /\ snap[c].names[x] = NoName

\* Nothing is in progress: no request, registration, frame or eviction is being
\* handled and no cleanup callback is running.
Quiescent ==
    /\ \A c \in Conns : pc[c].ph \in {"idle", "done", "closed", "run"}
    /\ \A t \in Timers : timers[t] \in {"none", "armed"}

\* C2: whenever no registration or eviction is in progress, broadcasting and
\* the domain of usernames are subsets of peers in every room.
C2_InclusionsWhenQuiescent ==
    Quiescent =>
        \A r \in Rooms : sBcast[r] \subseteq sPeers[r] /\ Named(sNames[r]) \subseteq sPeers[r]

\* C3: in every send channel a peer-joined frame is preceded by the welcome of
\* the channel's owner, unless the owner has received its welcome already.
C3_WelcomeBeforePeerJoined ==
    \A c \in Conns : \A i \in DOMAIN queue[c] :
        queue[c][i].type = "peer-joined" =>
            \/ client[c].peerId = c
            \/ \E j \in 1..(i - 1) : queue[c][j].type = "welcome"

\* C4: for two peers whose registrations in the same hub are both complete,
\* once A's channel is drained the latest welcome or peer-joined that A
\* received lists B.
C4_LatestSnapshotListsPeer ==
    \A a \in Conns : \A b \in Conns \ {a} :
        (/\ Running(a) /\ Running(b)
         /\ Registered(a) /\ Registered(b)
         /\ hubOf[a] = hubOf[b]
         /\ queue[a] = <<>>)
        => b \in hist[a].wj

\* C5: no state message delivered to a surviving peer after the peer-left of X
\* lists X in peers, broadcasting or usernames.
C5_NoSnapshotListsLeftPeer ==
    \A c \in Conns : hist[c].stale = {}

\* C6: a peer that is registered and whose Accept has returned is in the hub
\* that the manager's map holds for its room, its room is in the registry and
\* its id is in the room's presence set.
C6_CleanupSparesRejoinedHub ==
    \A c \in Conns :
        (Running(c) /\ Registered(c)) =>
            /\ hubs[rc[c]] = hubOf[c]
            /\ rc[c] \in rooms
            /\ c \in sPeers[rc[c]]

\* C7: all peers registered under the same room code are registered in one and
\* the same hub.
C7_OneHubPerRoomCode ==
    \A a \in Conns : \A b \in Conns :
        (Registered(a) /\ Registered(b) /\ RoomOf(a) = RoomOf(b)) => hubOf[a] = hubOf[b]

\* C8: HubForRoom creates or returns a hub only for a room code whose record is
\* in the room registry at that moment.
C8_HubOnlyForExistingRoom ==
    [][\A c \in Conns : (hubOf[c] = 0 /\ hubOf'[c] # 0) => rc[c] \in rooms']_vars

\* C9: a peer whose HubForRoom call stopped the armed idle timer of its room and
\* that has registered keeps its room in the registry and is in the hub that
\* the manager's map holds for the room.
C9_RejoinBeforeTimerKeepsRoom ==
    \A c \in rejoined :
        (Running(c) /\ Registered(c)) => rc[c] \in rooms /\ hubs[rc[c]] = hubOf[c]

\* A connection that got a hub and whose eviction has run to the end of
\* Hub.unregister, and one that never got a hub.
Evicted(c) == pc[c] \in {P("un", "close"), P("closed", "")}
Hubless(c) == pc[c] \in {Idle, P("done", "400"), P("done", "404")}

\* Every connection that got a hub has been evicted, one of them was a peer of
\* room r, and no client input is left: the last peer of r has been evicted and
\* nobody joins again.
Abandoned(r) ==
    /\ inputs = 0
    /\ \A c \in Conns : Evicted(c) \/ Hubless(c)
    /\ \E c \in Conns : Evicted(c) /\ rc[c] = r

\* The cleanup of room r has run to its end.
Cleaned(r) ==
    /\ r \notin rooms
    /\ hubs[r] = 0
    /\ sPeers[r] = {} /\ sBcast[r] = {} /\ sNames[r] = NoNames

\* C10: after the last peer of a room has been evicted and with no further
\* join, the idle timer eventually fires and the cleanup removes the presence,
\* the hub entry and the room record.
C10_AbandonedRoomIsCleaned ==
    \A r \in Rooms : Abandoned(r) ~> Cleaned(r)

\* C15: OnEmpty is about to be invoked by an eviction only when the registry of
\* the evicting peer's hub holds no client.
C15_OnEmptyOnlyWhenRegistryEmpty ==
    \A c \in Conns : pc[c] = P("un", "empty") => clients[hubOf[c]] = {}

\* ------------------------------------------------- rooms already in use

\* Payloads a signal may carry: 1..MaxData; 0 stands for an absent payload, and
\* target id 0 for an absent "to".
MaxData == 2
Datas == 1..MaxData

\* The hub that serves a room when the rooms were first joined in the order r1, r2.
HubFor(r) == IF r \in Rooms THEN 1 ELSE 2

\* The state the server is in after the connections with a room in `where` have
\* joined it one after the other, every writer has drained its channel and every
\* browser has handled what it got; the rooms in `made` have a record as well,
\* and n client inputs are left.
InitJoined(n, where, made) ==
    LET In(r) == {c \in Conns : where[c] = r}
        Used == {r \in AllRooms : In(r) # {}}
    IN
    /\ rooms = Used \cup made
    /\ creates = Cardinality(Used \cup made)
    /\ sPeers = [r \in AllRooms |-> In(r)]
    /\ sBcast = [r \in AllRooms |-> {}]
    /\ sNames = [r \in AllRooms |-> NoNames]
    /\ hubs = [r \in AllRooms |-> IF r \in Used THEN HubFor(r) ELSE 0]
    /\ entryTimer = [r \in AllRooms |-> 0]
    /\ mLock = 0
    /\ hubRoom = [h \in Hubs |-> IF \E r \in Used : HubFor(r) = h
                                 THEN CHOOSE r \in Used : HubFor(r) = h ELSE NoCode]
    /\ clients = [h \in Hubs |-> {c \in Conns : where[c] # NoCode /\ HubFor(where[c]) = h}]
    /\ timers = [t \in Timers |-> "none"]
    /\ tRoom = [t \in Timers |-> NoCode]
    /\ pc = [c \in Conns |-> IF where[c] = NoCode THEN Idle ELSE P("run", "")]
    /\ rc = where
    /\ hubOf = [c \in Conns |-> IF where[c] = NoCode THEN 0 ELSE HubFor(where[c])]
    /\ snap = [c \in Conns |-> EmptySnap]
    /\ arg = [c \in Conns |-> FALSE]
    /\ queue = [c \in Conns |-> <<>>]
    /\ client = [c \in Conns |->
                    IF where[c] = NoCode THEN NoClient
                    ELSE [peerId |-> c, peers |-> In(where[c]), broadcasting |-> {}]]
    /\ hist = [c \in Conns |->
                    IF where[c] = NoCode THEN NoHist
                    ELSE [left |-> {}, stale |-> {}, wj |-> In(where[c])]]
    /\ rejoined = {}
    /\ inputs = n
    /\ sig = [c \in Conns |-> NoSig]
    /\ life = [c \in Conns |-> Alive]
    /\ drops = 0
    /\ InitExt2

\* Connections 1 and 2 in room r1; connections 1 in r1 and 2 in r2.
SameRoom == [c \in Conns |-> IF c \in {1, 2} THEN "r1" ELSE NoCode]
TwoRooms == [c \in Conns |-> IF c = 1 THEN "r1" ELSE IF c = 2 THEN "r2" ELSE NoCode]

\* ---------------------------------------------------- Hub.forwardSignal

\* protocol.SignalMessage.
SignalMessage(from, to, data) == [type |-> "signal", from |-> from, to |-> to, data |-> data]

\* The send channel of a connection has been closed by its reader's deferred
\* close(c.send).
ChanClosed(c) == pc[c] = P("closed", "")

\* The process has not died of a panic in one of its goroutines.
Up == \A c \in Conns : pc[c].ph # "panic"

\* A "signal" frame with to and data set: Hub.forwardSignal looks the target up
\* in the registry under the read lock and lets the lock go.  With no client
\* under that id it logs and returns.
forwardSignalLookup(c, to, data) ==
    /\ pc[c] = P("run", "")
    /\ CanAccept
    /\ inputs > 0
    /\ inputs' = inputs - 1
    /\ IF to \in clients[hubOf[c]]
       THEN /\ sig' = [sig EXCEPT ![c] = [to |-> to, data |-> data]]
            /\ pc' = [pc EXCEPT ![c] = P("sg", "send")]
       ELSE UNCHANGED <<sig, pc>>
    /\ UNCHANGED <<roomVars, storeVars, mgrVars, clients, rc, hubOf, snap, arg, queue,
                   cliVars, life, drops, ext2>>

\* Hub.forwardSignal: target.sendJSON, on the client found by the lookup.  A send
\* on a channel that the target's reader has closed panics.
forwardSignalSend(c) ==
    /\ pc[c] = P("sg", "send")
    /\ IF ChanClosed(sig[c].to)
       THEN /\ pc' = [pc EXCEPT ![c] = P("panic", "")]
            /\ UNCHANGED queue
       ELSE /\ queue' = [queue EXCEPT ![sig[c].to] =
                            sendJSON(@, SignalMessage(c, sig[c].to, sig[c].data))]
            /\ pc' = [pc EXCEPT ![c] = P("run", "")]
    /\ sig' = [sig EXCEPT ![c] = NoSig]
    /\ UNCHANGED <<roomVars, storeVars, mgrVars, clients, rc, hubOf, snap, arg,
                   cliVars, inputs, life, drops, ext2>>

\* Hub.unregister after the registry removal and the reader's other deferred
\* calls, step by step.
EvictRun(c) ==
    \/ Up /\ Drained /\ unregisterRemovePeer(c)
    \/ Up /\ Drained /\ unregisterRemoveBroadcast(c)
    \/ Up /\ Drained /\ unregisterRemoveUsername(c)
    \/ Up /\ Drained /\ snapshotPeers(c)
    \/ Up /\ Drained /\ snapshotBroadcasting(c)
    \/ Up /\ Drained /\ snapshotUsernames(c)
    \/ Up /\ Drained /\ unregisterLeft(c)
    \/ Up /\ Drained /\ scheduleCleanup(c)
    \/ Up /\ Drained /\ readPumpClose(c)

\* A peer goes away and its reader runs Hub.unregister.
EvictStep(c) ==
    \/ Up /\ Drained /\ unregisterDelete(c)
    \/ EvictRun(c)

\* Two peers of one room send each other (or themselves, or an id nobody has)
\* signals while either may go away.
SignalNext ==
    \/ \E c \in Conns : Up /\ writePump(c)
    \/ \E c \in Conns, to \in Conns, data \in Datas :
           Up /\ Drained /\ forwardSignalLookup(c, to, data)
    \/ \E c \in Conns : Up /\ Drained /\ forwardSignalSend(c)
    \/ \E c \in Conns : EvictStep(c)

SignalSpec == InitJoined(MaxInputs, SameRoom, {}) /\ [][SignalNext]_vars

\* C11: when Hub.forwardSignal sends, the frame goes to the channel of the client
\* that is registered under the target id in the sender's hub at that moment and
\* to no other channel, and the send does not take the process down.
C11_SignalOnlyToRegisteredTarget ==
    [][\A c \in Conns :
          (pc[c] = P("sg", "send") /\ pc'[c] # pc[c]) =>
             /\ pc'[c].ph # "panic"
             /\ \A d \in Conns : queue'[d] # queue[d] =>
                   /\ d = sig[c].to
                   /\ d \in clients[hubOf[c]]
                   /\ queue'[d] = Append(queue[d], SignalMessage(c, d, sig[c].data))]_vars

\* ------------------------------------------------------- two rooms in use

\* Connection 1 alone in room r1.
OneRoom == [c \in Conns |-> IF c = 1 THEN "r1" ELSE NoCode]

\* A step of a process that is up, taken once the writers have drained.
Step(A) == Up /\ Drained /\ A

IsoConn(c) ==
    \/ Step(WSGet(c))
    \/ Step(hubForRoomReuse(c))
    \/ Step(hubForRoomResetPresence(c))
    \/ Step(hubForRoomResetBcast(c))
    \/ Step(hubForRoomInstall(c))
    \/ Step(registerInsert(c))
    \/ Step(registerAddPeer(c))
    \/ Step(registerWelcome(c))
    \/ Step(registerJoined(c))
    \/ Step(updateBroadcastSend(c))
    \/ Step(publishPresence(c))
    \/ Step(forwardSignalSend(c))

\* Peers join r1 and r2, send, and go away, all at the same time; the 30 s of an
\* idle timer do not pass within such a run.
IsolationNext ==
    \/ \E c \in Conns : Up /\ writePump(c)
    \/ \E c \in Conns, code \in AllRooms : Step(WSHandler(c, code))
    \/ \E c \in Conns : IsoConn(c)
    \/ \E c \in Conns : EvictStep(c)
    \/ \E c \in Conns, enabled \in BOOLEAN : Step(updateBroadcast(c, enabled))
    \/ \E c \in Conns, raw \in RawNames : Step(setUsername(c, raw))
    \/ \E c \in Conns, to \in Conns, data \in Datas : Step(forwardSignalLookup(c, to, data))

IsolationSpec == InitJoined(LiveInputs, OneRoom, OtherRooms) /\ [][IsolationNext]_vars

\* The peer that caused a frame: the id of a state message, the sender of a signal.
Origin(f) == IF IsState(f) THEN f.id ELSE f.from

\* C12: every frame in the send channel of a peer was caused by a peer of the
\* same room, and a state message in it lists only ids of peers of that room.
C12_RoomsAreIsolated ==
    \A c \in Conns : \A i \in DOMAIN queue[c] :
        /\ rc[Origin(queue[c][i])] = rc[c]
        /\ IsState(queue[c][i]) => \A x \in Listed(queue[c][i]) : rc[x] = rc[c]

\* A peer of r2 has a frame in its channel while a peer of r1 is registered and
\* served.
C12_Witness ==
    \E c \in Conns, d \in Conns :
        /\ rc[c] = "r2" /\ queue[c] # <<>>
        /\ rc[d] = "r1" /\ Registered(d) /\ Running(d)

\* --------------------------------------------------- order of delivery

\* A step of a process that is up, whether or not the writers have drained.
Live(A) == Up /\ A

\* Two peers of one room send signals and broadcast frames faster than the
\* writers write them, and either may go away.
OrderNext ==
    \/ \E c \in Conns : Live(writePump(c))
    \/ \E c \in Conns, to \in Conns, data \in Datas : Live(forwardSignalLookup(c, to, data))
    \/ \E c \in Conns : Live(forwardSignalSend(c))
    \/ \E c \in Conns, enabled \in BOOLEAN : Live(updateBroadcast(c, enabled))
    \/ \E c \in Conns : Live(updateBroadcastSend(c))
    \/ \E c \in Conns : EvictStep(c)

OrderSpec == InitJoined(MaxInputs, SameRoom, {}) /\ [][OrderNext]_vars

\* The browser of connection c is handed frame f in this step.
Written(c, f) ==
    /\ client'[c] = (IF IsState(f) THEN handleState(client[c], f) ELSE client[c])
    /\ hist'[c] = (IF IsState(f) THEN Received(hist[c], f) ELSE hist[c])

\* C13: the send channel of a served connection changes only by a frame added
\* behind the frames it holds, or by its oldest frame being written to the
\* socket; so frames are written in the order of their enqueueing, none twice,
\* and a frame leaves the channel only by being written.
C13_WrittenInEnqueueOrder ==
    [][\A c \in Conns :
          (Running(c) /\ Running(c)' /\ queue'[c] # queue[c]) =>
             \/ /\ Len(queue'[c]) = Len(queue[c]) + 1
                /\ SubSeq(queue'[c], 1, Len(queue[c])) = queue[c]
                /\ client'[c] = client[c]
             \/ /\ queue[c] # <<>>
                /\ queue'[c] = Tail(queue[c])
                /\ Written(c, Head(queue[c]))]_vars

\* A channel holds two different frames caused by the same peer.
C13_Witness ==
    \E c \in Conns :
        /\ Len(queue[c]) >= 2
        /\ Origin(queue[c][1]) = Origin(queue[c][2])
        /\ queue[c][1] # queue[c][2]

\* ------------------------------------------- the ways a connection ends

\* The peer closes the socket, or the network breaks it: ReadMessage will fail.
socketClose(c) ==
    /\ Running(c)
    /\ life[c].sock = "open"
    /\ life' = [life EXCEPT ![c].sock = "closed"]
    /\ UNCHANGED <<roomVars, storeVars, mgrVars, clients, pc, rc, hubOf, snap, arg,
                   queue, cliVars, inputs, sig, drops, ext2>>

\* The caller of Accept cancels the context it passed in ConnOptions.
cancelContext(c) ==
    /\ Running(c)
    /\ ~life[c].done
    /\ life' = [life EXCEPT ![c].done = TRUE]
    /\ UNCHANGED <<roomVars, storeVars, mgrVars, clients, pc, rc, hubOf, snap, arg,
                   queue, cliVars, inputs, sig, drops, ext2>>

\* client.writePump: WriteMessage fails on the frame it took from the channel;
\* the writer returns and its deferred conn.Close closes the socket.
writePumpFail(c) ==
    /\ Writing(c)
    /\ queue' = [queue EXCEPT ![c] = Tail(@)]
    /\ life' = [life EXCEPT ![c].writer = FALSE, ![c].sock = "closed"]
    /\ UNCHANGED <<roomVars, storeVars, mgrVars, clients, pc, rc, hubOf, snap, arg,
                   cliVars, inputs, sig, drops, ext2>>

\* client.writePump: ctx.Done is ready; the writer returns and its deferred
\* conn.Close closes the socket.
writePumpDone(c) ==
    /\ Running(c)
    /\ life[c].writer
    /\ life[c].done
    /\ life' = [life EXCEPT ![c].writer = FALSE, ![c].sock = "closed"]
    /\ UNCHANGED <<roomVars, storeVars, mgrVars, clients, pc, rc, hubOf, snap, arg,
                   queue, cliVars, inputs, sig, drops, ext2>>

\* client.readPump: ReadMessage returns an error and the reader returns into its
\* deferred Hub.unregister.
readPumpFail(c) ==
    /\ life[c].sock # "open"
    /\ unregisterDelete(c)

\* client.readPump: between two frames the reader finds ctx.Done ready and
\* returns into its deferred Hub.unregister.
readPumpDone(c) ==
    /\ life[c].done
    /\ unregisterDelete(c)

\* What the goroutines of the server do by themselves.
LifeServer ==
    \/ \E c \in Conns : Up /\ writePump(c)
    \/ \E c \in Conns : Step(writePumpDone(c))
    \/ \E c \in Conns : Step(readPumpFail(c))
    \/ \E c \in Conns : Step(forwardSignalSend(c))
    \/ \E c \in Conns : EvictRun(c)

\* What peers, the network and the caller of Accept do.
LifeClient ==
    \/ \E c \in Conns : Step(socketClose(c))
    \/ \E c \in Conns : Step(cancelContext(c))
    \/ \E c \in Conns : Up /\ writePumpFail(c)
    \/ \E c \in Conns : Step(readPumpDone(c))
    \/ \E c \in Conns, to \in Conns : Step(forwardSignalLookup(c, to, 1))

LifeNext == LifeServer \/ LifeClient

\* Goroutines run and Redis answers; peers and the network owe nothing.
LifeSpec ==
    InitJoined(LiveInputs, SameRoom, {}) /\ [][LifeNext]_vars /\ WF_vars(LifeServer)

\* A registered peer whose socket is closed, whose context is cancelled or
\* whose writer has returned; and a peer whose eviction has begun.
Triggered(c) == Running(c) /\ life[c] # Alive
Evicting(c) == pc[c].ph \in {"un", "closed"}

\* C14: each of socket close, read error, write failure and context
\* cancellation of a registered peer leads to the peer's eviction.
C14_TriggerLeadsToEviction ==
    \A c \in Conns : Triggered(c) ~> Evicting(c)

\* ------------------------------------------------- Redis calls that fail

\* Hub.register: presence.AddPeer fails.  register returns the error, Accept
\* cancels the context and returns it, HTTPHandler logs it and closes the
\* socket; no writer and no reader is started.
registerAddPeerFail(c) ==
    /\ pc[c] = P("reg", "add")
    /\ pc' = [pc EXCEPT ![c] = P("done", "accept")]
    /\ life' = [life EXCEPT ![c] = [sock |-> "closed", done |-> TRUE, writer |-> FALSE]]
    /\ UNCHANGED <<roomVars, storeVars, mgrVars, clients, rc, hubOf, snap, arg, queue,
                   cliVars, inputs, sig, drops, ext2>>

\* Hub.unregister: presence.RemovePeer fails; the error is logged.
unregisterRemovePeerFail(c) ==
    /\ pc[c] = P("un", "rmPeers")
    /\ pc' = [pc EXCEPT ![c] = P("un", "rmBcast")]
    /\ UNCHANGED <<roomVars, storeVars, mgrVars, clients, rc, hubOf, snap, arg, queue,
                   cliVars, inputs, ext>>

\* Hub.snapshot: presence.Peers fails; the error is logged and peers is nil.
snapshotPeersFail(c) ==
    /\ Snapshotting(c)
    /\ pc[c].at = "peers"
    /\ snap' = [snap EXCEPT ![c].peers = {},
                            ![c].gone = {x \in Conns : HalfEvicted(x)}]
    /\ pc' = [pc EXCEPT ![c].at = "bcast"]
    /\ UNCHANGED <<roomVars, storeVars, mgrVars, clients, rc, hubOf, arg, queue,
                   cliVars, inputs, ext>>

\* A peer joins room r1, where AddPeer may fail, while the peers of the room
\* send frames.
RegFaultNext ==
    \/ \E c \in Conns : Up /\ writePump(c)
    \/ \E c \in Conns : Step(WSHandler(c, "r1"))
    \/ \E c \in Conns : Step(WSGet(c))
    \/ \E c \in Conns : Step(hubForRoomReuse(c))
    \/ \E c \in Conns : Step(registerInsert(c))
    \/ \E c \in Conns : Step(registerAddPeer(c))
    \/ \E c \in Conns : Step(registerAddPeerFail(c))
    \/ \E c \in Conns : Step(snapshotPeers(c))
    \/ \E c \in Conns : Step(snapshotBroadcasting(c))
    \/ \E c \in Conns : Step(snapshotUsernames(c))
    \/ \E c \in Conns : Step(registerWelcome(c))
    \/ \E c \in Conns : Step(registerJoined(c))
    \/ \E c \in Conns, enabled \in BOOLEAN : Step(updateBroadcast(c, enabled))
    \/ \E c \in Conns : Step(updateBroadcastSend(c))
    \/ \E c \in Conns, to \in Conns, data \in Datas : Step(forwardSignalLookup(c, to, data))
    \/ \E c \in Conns : Step(forwardSignalSend(c))

RegFaultSpec == InitJoined(MaxInputs, OneRoom, {}) /\ [][RegFaultNext]_vars

\* A connection whose registration was aborted because AddPeer failed.
Aborted(c) == pc[c] = P("done", "accept")

\* C16: no frame is enqueued to a connection whose registration was aborted
\* because AddPeer failed.
C16_AbortedRegistrationGetsNothing ==
    \A c \in Conns : Aborted(c) => queue[c] = <<>>

\* What the goroutines of the server do by themselves during evictions, Redis
\* answering with a value or with an error.
EvictFaultServer ==
    \/ \E c \in Conns : Up /\ writePump(c)
    \/ \E c \in Conns : Step(forwardSignalSend(c))
    \/ \E c \in Conns : Step(unregisterRemovePeerFail(c))
    \/ \E c \in Conns : Step(snapshotPeersFail(c))
    \/ \E c \in Conns : EvictRun(c)

\* What peers do meanwhile: send a signal, go away.
EvictFaultClient ==
    \/ \E c \in Conns, to \in Conns : Step(forwardSignalLookup(c, to, 1))
    \/ \E c \in Conns : Step(unregisterDelete(c))

EvictFaultNext == EvictFaultServer \/ EvictFaultClient

\* Client inputs in a run in which Redis calls of an eviction may fail.
FaultInputs == 1

\* Every connection in room r1.
AllJoined == [c \in Conns |-> "r1"]

\* Goroutines run and Redis answers, with a value or an error.
EvictFaultSpec ==
    InitJoined(FaultInputs, AllJoined, {}) /\ [][EvictFaultNext]_vars
        /\ WF_vars(EvictFaultServer)

\* An eviction in which presence.RemovePeer has failed: the peer is past the
\* call and its id is still in the presence set.
RemoveFailed(c) ==
    /\ pc[c].ph = "un"
    /\ pc[c].at # "rmPeers"
    /\ c \in sPeers[rc[c]]

\* C17: an eviction in which RemovePeer has failed runs to its end, the
\* reader's close of the socket and of the channel.
C17_EvictionCompletes ==
    \A c \in Conns : RemoveFailed(c) ~> (pc[c] = P("closed", ""))

\* ------------------------------------------------------- a full channel

\* Client inputs in a run that fills a send channel: more than the channel holds.
FloodInputs == 34

\* The peer that sends the frames of such a run.
Flooder == 2

\* Peer 2 sends "broadcast" frames with enabled = true, one after the other,
\* and the writers write when they get to it.
FloodNext ==
    \/ \E c \in Conns : Live(writePump(c))
    \/ Live(updateBroadcast(Flooder, TRUE))
    \/ \E c \in Conns : Live(snapshotPeers(c))
    \/ \E c \in Conns : Live(snapshotBroadcasting(c))
    \/ \E c \in Conns : Live(snapshotUsernames(c))
    \/ \E c \in Conns : Live(updateBroadcastSend(c))

FloodSpec == InitJoined(FloodInputs, SameRoom, {}) /\ [][FloodNext]_vars

\* C18: a send channel never holds more than 32 frames; and when a fan-out
\* sends, the sender's goroutine goes on, nobody leaves the registry, and every
\* registered client gets the frame behind the frames of its channel when the
\* channel has room, and keeps its channel as it is when the channel is full.
C18_FullChannelDropsOneFrame ==
    [][/\ \A c \in Conns : Len(queue'[c]) <= SendCap
       /\ \A c \in Conns :
            (pc[c] = P("bc", "send") /\ pc'[c] # pc[c]) =>
               /\ pc'[c] = P("run", "")
               /\ clients' = clients
               /\ \A d \in clients[hubOf[c]] :
                     queue'[d] =
                        IF Len(queue[d]) < SendCap
                        THEN Append(queue[d],
                                    StateMessage("broadcast-state", c, snap[c], <<arg[c]>>))
                        ELSE queue[d]]_vars

\* Peer 1's channel is full and its writer has written nothing, peer 2 has sent
\* more frames than a channel holds and has received its own.
C18_Witness ==
    /\ Len(queue[1]) = SendCap
    /\ client[1].broadcasting = {}
    /\ inputs = 0
    /\ pc[Flooder] = P("run", "")
    /\ client[Flooder].broadcasting = {Flooder}

\* ------------------------------------------------------ inbound frames

\* What a client may send: text that is no JSON for protocol.InboundMessage, or
\* an InboundMessage.  to = 0 and data = 0 stand for an absent "to" and "data",
\* enabled = <<>> for an absent "enabled".
Frame(ok, type, to, data, enabled, username) ==
    [ok |-> ok, type |-> type, to |-> to, data |-> data, enabled |-> enabled,
     username |-> username]

InboundFrames ==
    {Frame(FALSE, "", 0, 0, <<>>, NoName), Frame(TRUE, "ping", 0, 0, <<>>, NoName)}
    \cup {Frame(TRUE, "signal", to, data, <<>>, NoName) :
             to \in 0..MaxConns, data \in 0..MaxData}
    \cup {Frame(TRUE, "broadcast", 0, 0, enabled, NoName) :
             enabled \in {<<>>, <<TRUE>>, <<FALSE>>}}
    \cup {Frame(TRUE, "set-username", 0, 0, <<>>, raw) : raw \in RawNames}

\* A router that forwards every signal and takes an absent "enabled" for false.
Route_Unchecked(m) ==
    IF ~m.ok THEN "drop"
    ELSE IF m.type = "signal" THEN "forwardSignal"
    ELSE IF m.type = "broadcast" THEN "updateBroadcast"
    ELSE IF m.type = "set-username" THEN "setUsername"
    ELSE "drop"

\* client.readPump's json.Unmarshal and the switch of Hub.handleInbound: the
\* handler a frame is given to, or "drop".
Route(m) ==
    IF ~m.ok THEN "drop"
    ELSE IF m.type = "signal"
         THEN IF m.to = 0 \/ m.data = 0 THEN "drop" ELSE "forwardSignal"
    ELSE IF m.type = "broadcast"
         THEN IF m.enabled = <<>> THEN "drop" ELSE "updateBroadcast"
    ELSE IF m.type = "set-username" THEN "setUsername"
    ELSE "drop"

\* The reader logs (or just returns) and goes back to ReadMessage.
dropFrame(c) ==
    /\ pc[c] = P("run", "")
    /\ CanAccept
    /\ inputs > 0
    /\ inputs' = inputs - 1
    /\ drops' = drops + 1
    /\ UNCHANGED <<roomVars, storeVars, mgrVars, clients, pc, rc, hubOf, snap, arg,
                   queue, cliVars, sig, life, ext2>>

\* client.readPump reads frame m from the socket of c and handles it.
handleInbound(c, m) ==
    \/ Route(m) = "drop" /\ dropFrame(c)
    \/ Route(m) = "forwardSignal" /\ forwardSignalLookup(c, m.to, m.data)
    \/ Route(m) = "updateBroadcast" /\ updateBroadcast(c, m.enabled = <<TRUE>>)
    \/ Route(m) = "setUsername" /\ setUsername(c, m.username)

\* Two peers of one room send frames of every kind, and either may go away.
InboundNext ==
    \/ \E c \in Conns : Up /\ writePump(c)
    \/ \E c \in Conns, m \in InboundFrames : Step(handleInbound(c, m))
    \/ \E c \in Conns : Step(forwardSignalSend(c))
    \/ \E c \in Conns : Step(updateBroadcastSend(c))
    \/ \E c \in Conns : Step(publishPresence(c))
    \/ \E c \in Conns : EvictStep(c)

InboundSpec == InitJoined(LiveInputs, SameRoom, {}) /\ [][InboundNext]_vars

\* The frames that the protocol has dropped: no JSON, an unknown type, a signal
\* without "to" or without "data", a broadcast without "enabled".
BadFrames ==
    {m \in InboundFrames :
        \/ ~m.ok
        \/ m.type \notin {"signal", "broadcast", "set-username"}
        \/ m.type = "signal" /\ (m.to = 0 \/ m.data = 0)
        \/ m.type = "broadcast" /\ m.enabled = <<>>}

\* C19: the handling of a bad frame leaves the three stores, the registries and
\* every send channel as they are, and leaves the sender registered, with its
\* reader back at ReadMessage and its socket and writer as they were.
C19_BadFrameIsDropped ==
    [][\A c \in Conns : \A m \in BadFrames :
          handleInbound(c, m) =>
             /\ UNCHANGED <<storeVars, clients, queue, life>>
             /\ Registered(c)'
             /\ pc'[c] = P("run", "")]_vars

\* A frame has been dropped, and its sender has sent a broadcast frame since,
\* which the hub is handling.
C19_Witness ==
    \E c \in Conns : drops > 0 /\ pc[c] = P("bc", "send") /\ inputs = 0

\* ------------------------------------------------------ broadcast flags

\* Two peers of one room switch their broadcast flag on and off, and either may
\* go away.
BroadcastNext ==
    \/ \E c \in Conns : Up /\ writePump(c)
    \/ \E c \in Conns, enabled \in BOOLEAN : Step(updateBroadcast(c, enabled))
    \/ \E c \in Conns : Step(updateBroadcastSend(c))
    \/ \E c \in Conns : EvictStep(c)

BroadcastSpec == InitJoined(MaxInputs, SameRoom, {}) /\ [][BroadcastNext]_vars

C21_ClientViewEqualsSnapshot ==
    [][\A c \in Conns :
          (writePump(c) /\ IsState(Head(queue[c]))) =>
             /\ client'[c].peers = Head(queue[c]).peers
             /\ client'[c].broadcasting = Head(queue[c]).bcast]_vars

\* ------------------------------------------- room store, call by call

\* Room codes as the callers pass them, one element per run of characters.
RawCodes == {<<>>, <<" ">>, <<"r1">>, <<" ", "r1", " ">>, <<"r2">>}

\* strings.TrimSpace(code) of Get and Delete: the code, or "" when nothing is left.
CodeOf(raw) == IF TrimSpace(raw) = <<>> THEN NoCode ELSE TrimSpace(raw)[1]

\* A caller may begin a call: it is in none, and the run has calls left.
CallBegin(p) ==
    /\ call[p].ph \in {"idle", "done"}
    /\ inputs > 0
    /\ inputs' = inputs - 1

\* The call of p returns err at the present instant.
Returned(p, op, code, err) ==
    [call EXCEPT ![p] = [op |-> op, ph |-> "done", code |-> code, i |-> 0,
                         err |-> err, at |-> now]]

\* RedisStore.Create, one turn of its loop up to the answer of EXISTS: a code
\* that has a record is given up; after five such codes Create fails.
createExists(p) ==
    /\ \/ CallBegin(p)
       \/ call[p].ph = "draw" /\ UNCHANGED inputs
    /\ \E code \in AllRooms :
         LET i == IF call[p].ph = "draw" THEN call[p].i ELSE 0 IN
         call' = IF code \in rooms
                 THEN IF i + 1 < MaxTries
                      THEN [call EXCEPT ![p] = [op |-> "create", ph |-> "draw",
                                                code |-> NoCode, i |-> i + 1,
                                                err |-> "", at |-> 0]]
                      ELSE Returned(p, "create", NoCode, "exhausted")
                 ELSE [call EXCEPT ![p] = [op |-> "create", ph |-> "hset",
                                           code |-> code, i |-> i,
                                           err |-> "", at |-> 0]]
    /\ UNCHANGED <<roomVars, storeVars, mgrVars, clients, pc, rc, hubOf, snap, arg,
                   queue, cliVars, sig, life, drops, byID, lockVars, web, stamp, now, trip>>

\* RedisStore.Create: HSET of code and created_at under the code's key, and the
\* return of the room.
createHSet(p) ==
    /\ call[p].ph = "hset"
    /\ rooms' = rooms \cup {call[p].code}
    /\ stamp' = [stamp EXCEPT ![call[p].code] = now]
    /\ call' = Returned(p, "create", call[p].code, "")
    /\ now' = now + 1
    /\ UNCHANGED <<creates, storeVars, mgrVars, clients, pc, rc, hubOf, snap, arg,
                   queue, cliVars, inputs, sig, life, drops, byID, lockVars, web, trip>>

\* RedisStore.Get: the code is trimmed; an empty code and a code without a
\* record are answered ErrNotFound.
Get(p, raw) ==
    /\ CallBegin(p)
    /\ call' = Returned(p, "get", CodeOf(raw),
                        IF CodeOf(raw) = NoCode \/ CodeOf(raw) \notin rooms
                        THEN "NotFound" ELSE "")
    /\ now' = now + 1
    /\ UNCHANGED <<roomVars, storeVars, mgrVars, clients, pc, rc, hubOf, snap, arg,
                   queue, cliVars, sig, life, drops, byID, lockVars, web, stamp, trip>>

\* A DEL that removes nothing.
Del_Keep(rs, code) == rs

\* DEL of a key: the records that remain.
Del(rs, code) == rs \ {code}

\* RedisStore.Delete: the code is trimmed; an empty code returns ErrNotFound
\* before Redis is called, and so does a DEL that removed nothing.
Delete(p, raw) ==
    /\ CallBegin(p)
    /\ call' = Returned(p, "delete", CodeOf(raw),
                        IF CodeOf(raw) = NoCode \/ CodeOf(raw) \notin rooms
                        THEN "NotFound" ELSE "")
    /\ rooms' = IF CodeOf(raw) = NoCode THEN rooms ELSE Del(rooms, CodeOf(raw))
    /\ stamp' = [r \in AllRooms |-> IF r \in rooms' THEN stamp[r] ELSE 0]
    /\ now' = now + 1
    /\ UNCHANGED <<creates, storeVars, mgrVars, clients, pc, rc, hubOf, snap, arg,
                   queue, cliVars, sig, life, drops, byID, lockVars, web, trip>>

RoomNext ==
    \E p \in Callers :
        \/ createExists(p)
        \/ createHSet(p)
        \/ \E raw \in RawCodes : Get(p, raw)
        \/ \E raw \in RawCodes : Delete(p, raw)

\* The room store alone, with its callers running at the same time.
RoomSpec == InitWith(RoomCalls) /\ [][RoomNext]_vars

\* C28: the HSET of a Create call never writes a code that has a record, so no
\* Create returns a code of an existing room and none overwrites a record.
C28_CreateNeverOverwrites ==
    [][\A p \in Callers : createHSet(p) => call[p].code \notin rooms]_vars

\* C29: Delete of a code with a record removes the record and succeeds; Delete
\* of an absent or empty code returns NotFound and changes no record; Get
\* returns NotFound exactly when the trimmed code is empty or has no record;
\* and a code without a record gets one only by the HSET of a Create.
C29_DeleteThenGetNotFound ==
    [][\A p \in Callers :
          /\ \A raw \in RawCodes :
               /\ Delete(p, raw) =>
                    IF CodeOf(raw) \in rooms
                    THEN /\ CodeOf(raw) \notin rooms'
                         /\ rooms' \cup {CodeOf(raw)} = rooms
                         /\ call'[p].err = ""
                    ELSE /\ call'[p].err = "NotFound"
                         /\ UNCHANGED <<rooms, stamp>>
               /\ Get(p, raw) =>
                    /\ (call'[p].err = "NotFound") <=> (CodeOf(raw) \notin rooms)
                    /\ UNCHANGED <<rooms, stamp>>
          /\ \A code \in AllRooms :
               (code \notin rooms /\ code \in rooms') =>
                   \E q \in Callers : createHSet(q) /\ call[q].code = code]_vars

\* A Delete removed a record, and a later Get of the same code, passed with
\* spaces around it or without, was answered NotFound.
C29_Witness ==
    \E p, q \in Callers :
        /\ call[p].op = "delete" /\ call[p].ph = "done" /\ call[p].err = ""
        /\ call[q].op = "get" /\ call[q].ph = "done" /\ call[q].err = "NotFound"
        /\ call[q].code = call[p].code
        /\ call[q].at > call[p].at

\* ------------------------------------- RedisPresence, call by call

\* Calls of the presence store in a run.
StoreCalls == 4

\* RedisPresence.AddPeer: SADD of the id to the peers set.
AddPeer(r, id) ==
    /\ sPeers' = [sPeers EXCEPT ![r] = @ \cup {id}]
    /\ UNCHANGED <<sBcast, sNames>>

\* RedisPresence.RemovePeer: SREM from peers, SREM from broadcasting and HDEL from
\* usernames in one MULTI / EXEC transaction.
RemovePeer(r, id) ==
    /\ sPeers' = [sPeers EXCEPT ![r] = @ \ {id}]
    /\ sBcast' = [sBcast EXCEPT ![r] = @ \ {id}]
    /\ sNames' = [sNames EXCEPT ![r][id] = NoName]

\* RedisPresence.SetBroadcast: SADD or SREM on the broadcasting set.
SetBroadcast(r, id, enabled) ==
    /\ sBcast' = [sBcast EXCEPT ![r] = IF enabled THEN @ \cup {id} ELSE @ \ {id}]
    /\ UNCHANGED <<sPeers, sNames>>

\* RedisPresence.SetUsername: the name is trimmed; an empty name deletes the field.
PresenceSetUsername(r, id, username) ==
    /\ sNames' = [sNames EXCEPT ![r] = SetUsername(@, id, username)]
    /\ UNCHANGED <<sPeers, sBcast>>

\* RedisPresence.Reset: DEL of the three keys.
Reset(r) ==
    /\ sPeers' = [sPeers EXCEPT ![r] = {}]
    /\ sBcast' = [sBcast EXCEPT ![r] = {}]
    /\ sNames' = [sNames EXCEPT ![r] = NoNames]

\* One call A of the store, made while no AddPeer / RemovePeer pair is under way.
StoreCall(A) ==
    /\ trip.ph # "added"
    /\ inputs > 0
    /\ inputs' = inputs - 1
    /\ A
    /\ trip' = NoTrip
    /\ UNCHANGED <<roomVars, mgrVars, clients, pc, rc, hubOf, snap, arg, queue,
                   cliVars, sig, life, drops, byID, lockVars, web, stamp, call, now>>

\* AddPeer(id), with the state of the store before it kept for comparison.
PairAddPeer(r, id) ==
    /\ trip.ph # "added"
    /\ inputs > 0
    /\ inputs' = inputs - 1
    /\ AddPeer(r, id)
    /\ trip' = [ph |-> "added", room |-> r, id |-> id,
                peers |-> sPeers[r], bcast |-> sBcast[r], names |-> sNames[r]]
    /\ UNCHANGED <<roomVars, mgrVars, clients, pc, rc, hubOf, snap, arg, queue,
                   cliVars, sig, life, drops, byID, lockVars, web, stamp, call, now>>

\* RemovePeer of the id just added, as the next call of the store.
PairRemovePeer ==
    /\ trip.ph = "added"
    /\ RemovePeer(trip.room, trip.id)
    /\ trip' = [trip EXCEPT !.ph = "removed"]
    /\ UNCHANGED <<roomVars, mgrVars, clients, pc, rc, hubOf, snap, arg, queue,
                   cliVars, inputs, sig, life, drops, byID, lockVars, web, stamp, call, now>>

PresenceNext ==
    \/ \E r \in Rooms, id \in Conns :
          \/ StoreCall(AddPeer(r, id))
          \/ StoreCall(RemovePeer(r, id))
          \/ \E enabled \in BOOLEAN : StoreCall(SetBroadcast(r, id, enabled))
          \/ \E raw \in RawNames : StoreCall(PresenceSetUsername(r, id, raw))
          \/ PairAddPeer(r, id)
    \/ \E r \in Rooms : StoreCall(Reset(r))
    \/ PairRemovePeer

\* The presence store alone, under every sequence of its calls.
PresenceSpec == InitWith(StoreCalls) /\ [][PresenceNext]_vars

\* C30: after AddPeer(id) followed by RemovePeer(id), the peers set, the
\* broadcasting set and the usernames of the store are what they were before
\* the AddPeer.
C30_AddThenRemoveRestoresStore ==
    trip.ph = "removed" =>
        /\ sPeers[trip.room] = trip.peers
        /\ sBcast[trip.room] = trip.bcast
        /\ sNames[trip.room] = trip.names

\* ------------------------------------------- the browser, step by step

WebUnchanged ==
    UNCHANGED <<roomVars, storeVars, mgrVars, clients, pc, rc, hubOf, snap, arg,
                queue, cliVars, inputs, sig, life, drops, byID, lockVars, stamp, call, now, trip>>

\* socket.onmessage: the frame that the writer of the connection wrote reaches
\* the browser; a signal goes to handleSignal, everything else to handleState.
onmessage(c) ==
    /\ Writing(c)
    /\ client' = [client EXCEPT ![c] =
                     IF IsState(Head(queue[c])) THEN handleState(@, Head(queue[c])) ELSE @]
    /\ hist' = [hist EXCEPT ![c] =
                   IF IsState(Head(queue[c])) THEN Received(@, Head(queue[c])) ELSE @]
    /\ queue' = [queue EXCEPT ![c] = Tail(@)]
    /\ web' = [web EXCEPT ![c] =
                  IF IsState(Head(queue[c]))
                  THEN handleStateRest(@, client'[c].peerId, Head(queue[c]))
                  ELSE handleSignal(@, client[c].peerId, Head(queue[c]).from,
                                    Head(queue[c]).data)]
    /\ UNCHANGED <<roomVars, storeVars, mgrVars, clients, pc, rc, hubOf, snap, arg,
                   rejoined, inputs, sig, life, drops, byID, lockVars, stamp, call, now, trip>>

\* A call on a peer connection settles and its caller runs on.
settle(c, id) ==
    /\ web[c].connections[id].on
    /\ web[c].connections[id].chain # <<>>
    /\ web' = [web EXCEPT ![c] = Settle(@, id)]
    /\ WebUnchanged

RECURSIVE sendOffers(_, _, _)
sendOffers(b, self, ids) ==
    IF ids = {} THEN b
    ELSE sendOffers(sendOffer(b, self, Least(ids)), self, ids \ {Least(ids)})

\* WebRTCClient.startBroadcast, once getUserMedia has resolved, on a client
\* whose socket is open.
startBroadcast(c) ==
    /\ inputs > 0
    /\ inputs' = inputs - 1
    /\ pc[c].ph \in {"reg", "run", "bc", "nm", "sg"}
    /\ web' = [web EXCEPT ![c] =
                  sendOffers([@ EXCEPT !.broadcastEnabled = TRUE,
                                       !.out = Append(@, [type |-> "broadcast",
                                                           enabled |-> TRUE])],
                             client[c].peerId, client[c].peers \ {client[c].peerId})]
    /\ UNCHANGED <<roomVars, storeVars, mgrVars, clients, pc, rc, hubOf, snap, arg,
                   queue, cliVars, sig, life, drops, byID, lockVars, stamp, call, now, trip>>

\* A retry timer of sendOffer fires.
timeout(c, t) ==
    /\ t \in web[c].timeouts
    /\ web' = [web EXCEPT ![c] =
                  sendOffer([@ EXCEPT !.timeouts = @ \ {t}], client[c].peerId, t.id)]
    /\ WebUnchanged

\* pc.onicecandidate: a connection that has a local description gathers a
\* candidate, which is sent to the peer.
onicecandidate(c, id) ==
    /\ web[c].connections[id].on
    /\ web[c].connections[id].local # "none"
    /\ web[c].connections[id].gathered < MaxCands
    /\ web' = [web EXCEPT ![c] =
                  send([@ EXCEPT !.connections[id].gathered = @ + 1], id,
                       Cand(web[c].connections[id].gathered + 1))]
    /\ WebUnchanged

\* pc.ontrack: media of the peer arrives and its stream is kept.
ontrack(c, id) ==
    /\ web[c].connections[id].on
    /\ RemoteDescription(web[c].connections[id])
    /\ id \notin web[c].remoteStreams
    /\ web' = [web EXCEPT ![c].remoteStreams = @ \cup {id}]
    /\ WebUnchanged

ConnectionStates == {"connecting", "connected", "disconnected", "failed", "closed"}

\* pc.onconnectionstatechange: failed and closed remove the peer.
\* A handler that also tears the peer down on "disconnected".
onconnectionstatechange_Strict(c, id, state) ==
    /\ inputs > 0
    /\ inputs' = inputs - 1
    /\ web[c].connections[id].on
    /\ web[c].connections[id].connectionState # state
    /\ web' = [web EXCEPT ![c] =
                  IF state \in {"failed", "closed", "disconnected"}
                  THEN removePeer(@, id)
                  ELSE [@ EXCEPT !.connections[id].connectionState = state]]
    /\ UNCHANGED <<roomVars, storeVars, mgrVars, clients, pc, rc, hubOf, snap, arg,
                   queue, cliVars, sig, life, drops, byID, lockVars, stamp, call, now, trip>>

onconnectionstatechange(c, id, state) ==
    /\ inputs > 0
    /\ inputs' = inputs - 1
    /\ web[c].connections[id].on
    /\ web[c].connections[id].connectionState # state
    /\ web' = [web EXCEPT ![c] =
                  IF state \in {"failed", "closed"}
                  THEN removePeer(@, id)
                  ELSE [@ EXCEPT !.connections[id].connectionState = state]]
    /\ UNCHANGED <<roomVars, storeVars, mgrVars, clients, pc, rc, hubOf, snap, arg,
                   queue, cliVars, sig, life, drops, byID, lockVars, stamp, call, now, trip>>

\* client.readPump reads a signal frame that the browser sent, and
\* Hub.forwardSignal looks its target up.
readSignal(c) ==
    /\ pc[c] = P("run", "")
    /\ CanAccept
    /\ web[c].out # <<>>
    /\ Head(web[c].out).type = "signal"
    /\ web' = [web EXCEPT ![c].out = Tail(@)]
    /\ IF Head(web[c].out).to \in clients[hubOf[c]]
       THEN /\ sig' = [sig EXCEPT ![c] = [to |-> Head(web[c].out).to,
                                          data |-> Head(web[c].out).data]]
            /\ pc' = [pc EXCEPT ![c] = P("sg", "send")]
       ELSE UNCHANGED <<sig, pc>>
    /\ UNCHANGED <<roomVars, storeVars, mgrVars, clients, rc, hubOf, snap, arg, queue,
                   cliVars, inputs, life, drops, byID, lockVars, stamp, call, now, trip>>

\* client.readPump reads a broadcast frame that the browser sent, and
\* Hub.updateBroadcast calls SetBroadcast.
readBroadcast(c) ==
    /\ pc[c] = P("run", "")
    /\ CanAccept
    /\ web[c].out # <<>>
    /\ Head(web[c].out).type = "broadcast"
    /\ web' = [web EXCEPT ![c].out = Tail(@)]
    /\ sBcast' = [sBcast EXCEPT ![RoomOf(c)] =
                     IF Head(web[c].out).enabled THEN @ \cup {c} ELSE @ \ {c}]
    /\ arg' = [arg EXCEPT ![c] = Head(web[c].out).enabled]
    /\ pc' = [pc EXCEPT ![c] = P("bc", "peers")]
    /\ UNCHANGED <<roomVars, sPeers, sNames, mgrVars, clients, rc, hubOf, snap, queue,
                   cliVars, inputs, sig, life, drops, byID, lockVars, stamp, call, now, trip>>

\* The hub of room r1 is built and the /ws requests of the connections in who
\* have got it from HubForRoom; none has been upgraded yet.
InitUpgraded(n, who) ==
    /\ rooms = Rooms
    /\ creates = 1
    /\ sPeers = [r \in AllRooms |-> {}]
    /\ sBcast = [r \in AllRooms |-> {}]
    /\ sNames = [r \in AllRooms |-> NoNames]
    /\ hubs = [r \in AllRooms |-> IF r \in Rooms THEN HubFor(r) ELSE 0]
    /\ entryTimer = [r \in AllRooms |-> 0]
    /\ mLock = 0
    /\ hubRoom = [h \in Hubs |-> IF h = HubFor("r1") THEN "r1" ELSE NoCode]
    /\ clients = [h \in Hubs |-> {}]
    /\ timers = [t \in Timers |-> "none"]
    /\ tRoom = [t \in Timers |-> NoCode]
    /\ pc = [c \in Conns |-> IF c \in who THEN P("ws", "upgrade") ELSE Idle]
    /\ rc = [c \in Conns |-> IF c \in who THEN "r1" ELSE NoCode]
    /\ hubOf = [c \in Conns |-> IF c \in who THEN HubFor("r1") ELSE 0]
    /\ snap = [c \in Conns |-> EmptySnap]
    /\ arg = [c \in Conns |-> FALSE]
    /\ queue = [c \in Conns |-> <<>>]
    /\ client = [c \in Conns |-> NoClient]
    /\ hist = [c \in Conns |-> NoHist]
    /\ rejoined = {}
    /\ inputs = n
    /\ sig = [c \in Conns |-> NoSig]
    /\ life = [c \in Conns |-> Alive]
    /\ drops = 0
    /\ InitExt2

\* Clicks on "start broadcast" in a run of two joining browsers.
WebInputs == 1
Pair == {1, 2}

\* What the hub and a browser do on their own once the socket is registered:
\* the rest of Hub.register, the frames the browser sent, the frames it
\* receives, the calls that settle and the timers that fire.
Negotiate(c) ==
    \/ snapshotPeers(c) \/ snapshotBroadcasting(c) \/ snapshotUsernames(c)
    \/ registerWelcome(c) \/ registerJoined(c)
    \/ readBroadcast(c) \/ updateBroadcastSend(c)
    \/ readSignal(c) \/ forwardSignalSend(c)
    \/ onmessage(c)
    \/ \E id \in Pair : settle(c, id)
    \/ \E t \in web[c].timeouts : timeout(c, t)

WebNext ==
    \E c \in Pair :
        \/ registerInsert(c) \/ registerAddPeer(c)
        \/ startBroadcast(c)
        \/ Negotiate(c)

\* Two browsers join a room and negotiate, from the upgrade of their sockets on.
WebSpec == InitUpgraded(WebInputs, Pair) /\ [][WebNext]_vars

\* C22: whenever two clients hold a negotiation slot for each other, exactly
\* one of the two slots is polite, and it is the slot of the client with the
\* smaller id.
C22_ExactlyOnePolite ==
    \A a, b \in Conns :
        (a < b /\ web[a].negotiation[b].on /\ web[b].negotiation[a].on) =>
            /\ web[a].negotiation[b].polite
            /\ ~web[b].negotiation[a].polite

\* Browser 1 has joined room r1 and has received its welcome, which lists both
\* peers; Hub.register of connection 2 has inserted the client and has called
\* AddPeer, and peer-joined(1) waits in the send channel of connection 2.
InitJoining(n) ==
    /\ rooms = Rooms
    /\ creates = 1
    /\ sPeers = [r \in AllRooms |-> IF r = "r1" THEN Pair ELSE {}]
    /\ sBcast = [r \in AllRooms |-> {}]
    /\ sNames = [r \in AllRooms |-> NoNames]
    /\ hubs = [r \in AllRooms |-> IF r \in Rooms THEN HubFor(r) ELSE 0]
    /\ entryTimer = [r \in AllRooms |-> 0]
    /\ mLock = 0
    /\ hubRoom = [h \in Hubs |-> IF h = HubFor("r1") THEN "r1" ELSE NoCode]
    /\ clients = [h \in Hubs |-> IF h = HubFor("r1") THEN Pair ELSE {}]
    /\ timers = [t \in Timers |-> "none"]
    /\ tRoom = [t \in Timers |-> NoCode]
    /\ pc = [c \in Conns |-> IF c = 1 THEN P("run", "")
                             ELSE IF c = 2 THEN P("reg", "peers") ELSE Idle]
    /\ rc = [c \in Conns |-> IF c \in Pair THEN "r1" ELSE NoCode]
    /\ hubOf = [c \in Conns |-> IF c \in Pair THEN HubFor("r1") ELSE 0]
    /\ snap = [c \in Conns |-> EmptySnap]
    /\ arg = [c \in Conns |-> FALSE]
    /\ queue = [c \in Conns |->
                   IF c = 2
                   THEN <<StateMessage("peer-joined", 1,
                                       [EmptySnap EXCEPT !.peers = Pair], <<>>)>>
                   ELSE <<>>]
    /\ client = [c \in Conns |->
                    IF c = 1 THEN [peerId |-> 1, peers |-> Pair, broadcasting |-> {}]
                    ELSE NoClient]
    /\ hist = [c \in Conns |->
                  IF c = 1 THEN [left |-> {}, stale |-> {}, wj |-> Pair] ELSE NoHist]
    /\ rejoined = {}
    /\ inputs = n
    /\ sig = [c \in Conns |-> NoSig]
    /\ life = [c \in Conns |-> Alive]
    /\ drops = 0
    /\ InitExt2

\* Clicks on "start broadcast" in a run in which both browsers make offers.
GlareInputs == 2

\* The second browser is still joining when the two begin to negotiate.
JoiningNext == \E c \in Pair : startBroadcast(c) \/ Negotiate(c)

JoiningSpec == InitJoining(GlareInputs) /\ [][JoiningNext]_vars

\* C23: for a pair of clients, not both answer an offer of the other that
\* collided with an offer of their own.
C23_NoDoubleAnswer ==
    \A a, b \in Conns :
        a # b => ~(<<"answered-glare", b>> \in web[a].ev /\ <<"answered-glare", a>> \in web[b].ev)

\* The two browsers are in the room, each has its welcome, and both make
\* offers: the hub forwards, the browsers negotiate.
GlareNext ==
    \E c \in Pair :
        \/ startBroadcast(c)
        \/ readBroadcast(c) \/ updateBroadcastSend(c)
        \/ snapshotPeers(c) \/ snapshotBroadcasting(c) \/ snapshotUsernames(c)
        \/ readSignal(c) \/ forwardSignalSend(c)
        \/ onmessage(c)
        \/ \E id \in Pair : settle(c, id)
        \/ \E t \in web[c].timeouts : timeout(c, t)

GlareSpec == InitJoined(GlareInputs, SameRoom, {}) /\ [][GlareNext]_vars

\* Both clients have sent one offer, and the offer of each reached the other
\* while the other's own offer was being made or was pending.
Glare(a, b) ==
    /\ <<"sent-offer", b>> \in web[a].ev /\ <<"sent-offer", a>> \in web[b].ev
    /\ <<"collision", b>> \in web[a].ev /\ <<"collision", a>> \in web[b].ev
    /\ <<"sent-offer-again", b>> \notin web[a].ev
    /\ <<"sent-offer-again", a>> \notin web[b].ev

\* Nothing is in flight: no frame in a send channel or in a socket, no frame
\* being handled by the hub, no call pending on a connection, no timer pending.
Delivered ==
    /\ \A c \in Conns : queue[c] = <<>> /\ web[c].out = <<>> /\ web[c].timeouts = {}
    /\ \A c \in Conns : pc[c].ph \in {"idle", "run"}
    /\ \A c, id \in Conns : web[c].connections[id].chain = <<>>

\* The polite client a rolled its offer back, applied the offer of b and
\* answered it; b ignored the offer of a and applied the answer; both
\* connections are stable and have a remote description.
GlareResolved(a, b) ==
    /\ {<<"rolled-back", b>>, <<"applied-offer", b>>, <<"answered-glare", b>>} \subseteq web[a].ev
    /\ {<<"ignored", a>>, <<"applied-answer", a>>} \subseteq web[b].ev
    /\ <<"applied-offer", a>> \notin web[b].ev
    /\ web[a].connections[b].signalingState = "stable"
    /\ web[b].connections[a].signalingState = "stable"
    /\ RemoteDescription(web[a].connections[b])
    /\ RemoteDescription(web[b].connections[a])

\* C24: when polite client 1 and impolite client 2 have sent colliding offers
\* and every message has been delivered, 1 has rolled back, applied the offer
\* of 2 and answered, 2 has ignored the offer of 1 and applied the answer, and
\* both connections are stable with a remote description.
C24_GlareResolvesOnceDelivered ==
    (Glare(1, 2) /\ Delivered) => GlareResolved(1, 2)

C24_Witness == Glare(1, 2) /\ Delivered /\ GlareResolved(1, 2)

\* Clicks on "start broadcast" in a run in which candidates are exchanged.
IceInputs == 1

IceNext ==
    \E c \in Pair :
        \/ startBroadcast(c)
        \/ readBroadcast(c) \/ updateBroadcastSend(c)
        \/ snapshotPeers(c) \/ snapshotBroadcasting(c) \/ snapshotUsernames(c)
        \/ readSignal(c) \/ forwardSignalSend(c)
        \/ onmessage(c)
        \/ \E id \in Pair : settle(c, id) \/ onicecandidate(c, id)

\* One browser makes an offer to the other, and both send their candidates.
IceSpec == InitJoined(IceInputs, SameRoom, {}) /\ [][IceNext]_vars

\* C25: the candidates of a peer are added to the connection in the order in
\* which they arrived, which is the order in which the peer gathered them; a
\* candidate is added only when a remote description is set, and one that
\* waits in the queue of the slot has not been added.
C25_CandidatesInArrivalOrder ==
    \A c, id \in Conns :
        LET p == web[c].connections[id] IN
        /\ \A i, j \in 1..Len(p.added) : i < j => p.added[i] < p.added[j]
        /\ p.added # <<>> => RemoteDescription(p)

\* Clicks on "start broadcast" in a run in which one browser keeps offering.
RetryInputs == 3

RetryNext ==
    \/ startBroadcast(1)
    \/ \E c \in Pair :
          \/ readBroadcast(c) \/ updateBroadcastSend(c)
          \/ snapshotPeers(c) \/ snapshotBroadcasting(c) \/ snapshotUsernames(c)
          \/ readSignal(c) \/ forwardSignalSend(c)
          \/ onmessage(c)
          \/ \E id \in Pair : settle(c, id)
          \/ \E t \in web[c].timeouts : timeout(c, t)

\* Browser 1 offers to browser 2 again and again while both are in the room.
RetrySpec == InitJoined(RetryInputs, SameRoom, {}) /\ [][RetryNext]_vars

\* The retry timers of client c for peer id that are pending in w.
RetryTimers(w, c, id) == {t \in w[c].timeouts : t.id = id}

\* C26: for every client and peer, offerRetryCount never exceeds 8, at most
\* one retry timer is pending, and a step that schedules a retry timer finds
\* the count below 8 and raises it by one, so that after eight deferrals in a
\* row no timer is scheduled.
C26_RetryIsBounded ==
    [][\A c, id \in Conns :
          /\ web'[c].negotiation[id].offerRetryCount <= MaxRetries
          /\ Cardinality(RetryTimers(web', c, id)) <= 1
          /\ (RetryTimers(web', c, id) \ RetryTimers(web, c, id) # {}) =>
                 /\ web[c].negotiation[id].offerRetryCount < MaxRetries
                 /\ web'[c].negotiation[id].offerRetryCount =
                        web[c].negotiation[id].offerRetryCount + 1]_vars

\* A client has deferred its offer eight times in a row, the eighth timer has
\* fired while the connection still was not stable, and no timer is pending.
C26_Witness ==
    \E c, id \in Conns :
        /\ web[c].negotiation[id].offerRetryCount = MaxRetries
        /\ web[c].negotiation[id].offerRetryTimer = 0
        /\ RetryTimers(web, c, id) = {}
        /\ web[c].connections[id].signalingState # "stable"

\* ------------------------------------------------------- peer teardown

TeardownInputs == 3

\* Hub.unregister is running for some connection.
Unregistering == \E c \in Conns : pc[c].ph = "un"

\* Two browsers in one room: each may start broadcasting once, media arrives
\* at browser 2, its connection to browser 1 changes state, and browser 1 may
\* lose its socket, on which the hub tells browser 2 that it left.  A running
\* unregister goes ahead of the other steps.  WebRTCClient.disconnect(),
\* which ends the whole client, is not a step here.
TeardownNext ==
    \/ Up /\ Drained /\ unregisterDelete(1)
    \/ ~Unregistering /\ ontrack(2, 1)
    \/ \E state \in ConnectionStates :
          ~Unregistering /\ onconnectionstatechange(2, 1, state)
    \/ \E c \in Pair :
          \/ ~Unregistering /\ ~web[c].broadcastEnabled /\ startBroadcast(c)
          \/ ~Unregistering /\ (readBroadcast(c) \/ updateBroadcastSend(c))
          \/ snapshotPeers(c) \/ snapshotBroadcasting(c) \/ snapshotUsernames(c)
          \/ ~Unregistering /\ (readSignal(c) \/ forwardSignalSend(c))
          \/ ~Unregistering /\ onmessage(c)
          \/ \E id \in Pair : ~Unregistering /\ settle(c, id)
          \/ \E t \in web[c].timeouts : ~Unregistering /\ timeout(c, t)
          \/ unregisterRemovePeer(c) \/ unregisterRemoveBroadcast(c)
          \/ unregisterRemoveUsername(c) \/ unregisterLeft(c)
          \/ readPumpClose(c)

TeardownSpec == InitJoined(TeardownInputs, SameRoom, {}) /\ [][TeardownNext]_vars

\* handleState is given "peer-left" for id.
PeerLeft(c, id) ==
    /\ Writing(c)
    /\ Head(queue[c]).type = "peer-left"
    /\ Head(queue[c]).id = id
    /\ onmessage(c)

\* The connection to id is closed and forgotten, or its slot is cleared.
TornDown(c, id) ==
    \/ web[c].connections[id].on /\ ~web'[c].connections[id].on
    \/ web[c].negotiation[id].on /\ ~web'[c].negotiation[id].on

C31_NoEnqueueAfterClose ==
    [][\A d \in Conns :
          ChanClosed(d) =>
             /\ \A c \in Conns :
                   (pc[c] = P("sg", "send") /\ sig[c].to = d) => pc'[c] = pc[c]
             /\ Len(queue'[d]) <= Len(queue[d])
             /\ Up']_vars

\* ------------------------------------------- the order of the snapshots

\* Two peers of one room switch their broadcast flag and set their names, each
\* frame handled by its own reader goroutine, while the writers deliver.
SnapshotNext ==
    \E c \in Conns :
        \/ writePump(c)
        \/ \E enabled \in BOOLEAN : updateBroadcast(c, enabled)
        \/ \E raw \in RawNames : setUsername(c, raw)
        \/ snapshotPeers(c) \/ snapshotBroadcasting(c) \/ snapshotUsernames(c)
        \/ updateBroadcastSend(c)
        \/ publishPresence(c)

SnapshotSpec == InitJoined(MaxInputs, SameRoom, {}) /\ [][SnapshotNext]_vars

\* The newest state message in a channel, which the writer delivers last.
Newest(q) == q[CHOOSE i \in 1..Len(q) : IsState(q[i]) /\ \A j \in (i + 1)..Len(q) : ~IsState(q[j])]

\* C32: when nothing is in progress and no channel is full, the newest snapshot
\* sent to each registered peer (the last one it receives) shows the peers,
\* the broadcasting set and the usernames that the store holds.
C32_NewestSnapshotIsCurrent ==
    (Quiescent /\ \A d \in Conns : Len(queue[d]) < SendCap) =>
        \A d \in Conns :
            (pc[d] = P("run", "") /\ d \in clients[hubOf[d]]
               /\ \E i \in 1..Len(queue[d]) : IsState(queue[d][i])) =>
                /\ Newest(queue[d]).peers = sPeers[RoomOf(d)]
                /\ Newest(queue[d]).bcast = sBcast[RoomOf(d)]
                /\ Newest(queue[d]).names = sNames[RoomOf(d)]

\* --------------------------------- Hub.Accept with an id of the caller

AcceptInputs == 2

\* Hub.broadcast over the map from ids to connections: a send to the
\* connection registered under every id but skipID.
broadcastByID(f, skipID) ==
    [d \in Conns |->
        IF \E i \in Conns : i # skipID /\ byID.clients[i] = d
        THEN sendJSON(queue[d], f) ELSE queue[d]]

AcceptUnchanged ==
    UNCHANGED <<roomVars, mgrVars, clients, rc, hubOf, arg, cliVars, sig, life,
                drops, stamp, call, now, trip, web, lockVars>>

\* Hub.Accept with ConnOptions.ID = id: Hub.register stores the new client
\* under its id, whatever the map held there.
acceptInsert(c, id) ==
    /\ pc[c] = Idle
    /\ inputs > 0
    /\ inputs' = inputs - 1
    /\ byID' = [byID EXCEPT !.id[c] = id, !.clients[id] = c]
    /\ pc' = [pc EXCEPT ![c] = P("acc", "addPeer")]
    /\ UNCHANGED <<storeVars, snap, queue>>
    /\ AcceptUnchanged

\* Hub.register: presence.AddPeer(c.id),
acceptAddPeer(c) ==
    /\ pc[c] = P("acc", "addPeer")
    /\ sPeers' = [sPeers EXCEPT !["r1"] = @ \cup {byID.id[c]}]
    /\ pc' = [pc EXCEPT ![c] = P("acc", "snapshot")]
    /\ UNCHANGED <<sBcast, sNames, snap, queue, inputs, byID>>
    /\ AcceptUnchanged

\* Hub.snapshot, in Hub.register and in Hub.unregister,
acceptSnapshot(c) ==
    /\ pc[c].ph = "acc"
    /\ pc[c].at \in {"snapshot", "leftSnapshot"}
    /\ snap' = [snap EXCEPT ![c] = [peers |-> sPeers["r1"], bcast |-> sBcast["r1"],
                                    names |-> sNames["r1"], gone |-> {}]]
    /\ pc' = [pc EXCEPT ![c].at = IF pc[c].at = "snapshot" THEN "welcome" ELSE "left"]
    /\ UNCHANGED <<storeVars, queue, inputs, byID>>
    /\ AcceptUnchanged

\* Hub.register: the welcome to the new client and peer-joined to the clients
\* under the other ids; Accept then starts the writer and the reader.
acceptWelcome(c) ==
    /\ pc[c] = P("acc", "welcome")
    /\ queue' = [broadcastByID(StateMessage("peer-joined", byID.id[c], snap[c], <<>>),
                               byID.id[c])
                    EXCEPT ![c] = sendJSON(queue[c],
                                   StateMessage("welcome", byID.id[c], snap[c], <<>>))]
    /\ snap' = [snap EXCEPT ![c] = EmptySnap]
    /\ pc' = [pc EXCEPT ![c] = P("run", "")]
    /\ UNCHANGED <<storeVars, inputs, byID>>
    /\ AcceptUnchanged

\* client.readPump fails and its deferred Hub.unregister runs
\* delete(h.clients, c.id).
acceptDelete(c) ==
    /\ pc[c] = P("run", "")
    /\ byID.id[c] # 0
    /\ byID' = [byID EXCEPT !.clients[byID.id[c]] = 0]
    /\ queue' = [queue EXCEPT ![c] = <<>>]
    /\ pc' = [pc EXCEPT ![c] = P("acc", "rmPeer")]
    /\ UNCHANGED <<storeVars, snap, inputs>>
    /\ AcceptUnchanged

\* Hub.unregister: RemovePeer(c.id) on the presence, broadcast and username
\* stores,
acceptRemovePeer(c) ==
    /\ pc[c] = P("acc", "rmPeer")
    /\ RemovePeer("r1", byID.id[c])
    /\ pc' = [pc EXCEPT ![c] = P("acc", "leftSnapshot")]
    /\ UNCHANGED <<snap, queue, inputs, byID>>
    /\ AcceptUnchanged

\* and peer-left to the clients under the other ids; the reader then closes
\* the socket and the channel.
acceptLeft(c) ==
    /\ pc[c] = P("acc", "left")
    /\ queue' = broadcastByID(StateMessage("peer-left", byID.id[c], snap[c], <<>>),
                              byID.id[c])
    /\ snap' = [snap EXCEPT ![c] = EmptySnap]
    /\ pc' = [pc EXCEPT ![c] = P("closed", "")]
    /\ UNCHANGED <<storeVars, inputs, byID>>
    /\ AcceptUnchanged

\* An application hands connections to one hub under ids of its choice, and
\* connections go away.
AcceptNext ==
    \E c \in Conns :
        \/ \E id \in Conns : acceptInsert(c, id)
        \/ acceptAddPeer(c)
        \/ acceptSnapshot(c)
        \/ acceptWelcome(c)
        \/ acceptDelete(c)
        \/ acceptRemovePeer(c)
        \/ acceptLeft(c)
        \/ writePump(c)

AcceptSpec == InitWith(AcceptInputs) /\ [][AcceptNext]_vars

\* Connection d is served: Accept has returned for it and its reader runs.
Served(d) == pc[d] = P("run", "")

\* C33: a step of the eviction of one connection leaves every other served
\* connection that is registered under its id registered, and every other
\* served connection whose id is in the presence store present.
C33_EvictionSparesOthers ==
    [][\A c, d \in Conns :
          (c # d /\ pc[c] # pc'[c] /\ pc'[c].ph \in {"acc", "closed"}
             /\ pc'[c].at \in {"rmPeer", "leftSnapshot", ""} /\ Served(d)) =>
              /\ byID.clients[byID.id[d]] = d => byID'.clients[byID.id[d]] = d
              /\ byID.id[d] \in sPeers["r1"] => byID.id[d] \in sPeers'["r1"]]_vars

\* ------------------------------------------- presence and the registries

\* The connections registered in a hub of room r.
RegisteredIn(r) == {c \in Conns : Registered(c) /\ rc[c] = r}

\* C34: whenever no registration, eviction, frame or cleanup is in progress,
\* the peers set of every room's presence store holds exactly the ids that are
\* registered in the room's hub.
C34_PresenceEqualsRegistry ==
    Quiescent => \A r \in AllRooms : sPeers[r] = RegisteredIn(r)

\* ------------------------------------------------- hubs nobody is in

\* C35: whenever nothing is in progress (no join, eviction, frame or cleanup
\* callback), every hub in the manager's map that has no registered client has
\* its idle timer armed.
C35_EmptyHubHasTimer ==
    Quiescent =>
        \A r \in AllRooms :
            (hubs[r] # 0 /\ clients[hubs[r]] = {}) =>
                /\ entryTimer[r] # 0
                /\ timers[entryTimer[r]] = "armed"

\* ------------------------------------------------- the idle timer fires

CleanupInputs == 2

\* cleanupRoom: store.Peers returns an error, which is logged; peers is nil
\* and the callback goes on as with no peer.
cleanupRoomPeersFail(t) ==
    /\ timers[t] = "fired"
    /\ timers' = [timers EXCEPT ![t] = "resetPeers"]
    /\ UNCHANGED <<roomVars, storeVars, hubs, entryTimer, mLock, hubRoom, tRoom,
                   clients, pc, rc, hubOf, snap, arg, queue, cliVars, inputs,
                   ext>>

\* The two peers of room r1 go away, others join again, idle timers fire, and
\* Redis may answer the callback's Peers call with an error.
CleanupNext ==
    \/ \E c \in Conns : Up /\ writePump(c)
    \/ \E c \in Conns : Step(WSHandler(c, "r1"))
    \/ \E c \in Conns : Step(WSGet(c))
    \/ \E c \in Conns : Step(hubForRoomReuse(c))
    \/ \E c \in Conns : Step(hubForRoomResetPresence(c))
    \/ \E c \in Conns : Step(hubForRoomResetBcast(c))
    \/ \E c \in Conns : Step(hubForRoomInstall(c))
    \/ \E c \in Conns : Step(registerInsert(c))
    \/ \E c \in Conns : Step(registerAddPeer(c))
    \/ \E c \in Conns : Step(registerWelcome(c))
    \/ \E c \in Conns : Step(registerJoined(c))
    \/ \E c \in Conns : EvictStep(c)
    \/ \E t \in Timers : TimerStep(t)
    \/ \E t \in Timers : Step(cleanupRoomPeersFail(t))

CleanupSpec == InitJoined(CleanupInputs, SameRoom, {}) /\ [][CleanupNext]_vars

\* C36: the callback of a fired idle timer goes on to the deletions only when
\* its Peers call has succeeded and returned no peer; otherwise (peers present,
\* or the call failed) it clears the entry's timer and deletes neither the
\* presence, nor the hub entry, nor the room.
C36_CleanupOnlyWhenCountIsZero ==
    [][\A t \in Timers :
          /\ (timers[t] = "fired" /\ timers'[t] # "fired") =>
                IF cleanupRoomPeers(t) /\ sPeers[tRoom[t]] = {}
                THEN timers'[t] = "resetPeers"
                ELSE timers'[t] = "abort"
          /\ (timers[t] = "abort" /\ timers'[t] # "abort") =>
                /\ entryTimer'[tRoom[t]] = 0
                /\ UNCHANGED <<rooms, sPeers, sBcast, sNames, hubs>>]_vars

\* The idle timers that are armed for room code r: started and neither
\* stopped nor fired.
ArmedFor(r) == {t \in Timers : timers[t] = "armed" /\ tRoom[t] = r}

\* C37: for each room code at most one idle timer is armed at any time.
C37_OneArmedTimerPerRoom ==
    \A r \in AllRooms : Cardinality(ArmedFor(r)) <= 1

\* The step in which a setRemoteDescription that browser c made for a
\* description from peer id resolves.
AppliesRemote(c, id) ==
    LET p == web[c].connections[id] IN
    /\ p.chain # <<>>
    /\ Head(p.chain).op = "setRemoteDescription"
    /\ Head(p.chain).arg = "answer" => p.signalingState = "have-local-offer"
    /\ settle(c, id)

\* The latch of C38, step by step: ignoreOffer for a peer turns true only in a
\* step that ignores an offer of that peer, turns false (the slot kept) only
\* in a step that applies a remote description of that peer, and is false
\* after such a step.
IgnoreOfferLatch(c, id) ==
    LET s == web[c].negotiation[id]
        t == web'[c].negotiation[id]
    IN
    /\ ~s.ignoreOffer /\ t.ignoreOffer =>
           <<"ignored", id>> \in web'[c].ev /\ web'[c].connections[id] = web[c].connections[id]
    /\ s.ignoreOffer /\ t.on /\ ~t.ignoreOffer => AppliesRemote(c, id)
    /\ AppliesRemote(c, id) => ~t.ignoreOffer

\* C38: ignore_offer for a remote peer becomes true exactly when an offer of
\* that peer is rejected because of impolite glare, stays true until the next
\* remote description from that peer has been applied successfully, and is
\* false after that apply.
C38_IgnoreOfferUntilApplied ==
    [][\A c \in Pair : \A id \in Pair : IgnoreOfferLatch(c, id)]_vars

\* The calls on the operations chain of browser c's connection to id that a
\* sendOffer awaits: an offer of c to id that is being made.
OffersInFlight(c, id) ==
    {i \in 1..Len(web[c].connections[id].chain) :
        web[c].connections[id].chain[i].fn = "sendOffer"}

\* C39: for each remote peer at most one local offer is being made at a time,
\* and makingOffer is true exactly while one is: a sendOffer that finds it
\* true starts no second one, and it is false after the attempt has ended,
\* with the offer sent or with an error.
C39_OneOfferInFlight ==
    \A c \in Pair : \A id \in Conns :
        /\ Cardinality(OffersInFlight(c, id)) <= 1
        /\ web[c].negotiation[id].makingOffer <=> OffersInFlight(c, id) # {}

\* Browser 1 has clicked twice while its first offer to peer 2 is still being
\* made: the sendOffer of the second click found makingOffer true.
C39_Witness ==
    /\ inputs = 0
    /\ ~web[2].broadcastEnabled
    /\ web[1].negotiation[2].makingOffer
    /\ Cardinality(OffersInFlight(1, 2)) = 1
    /\ <<"sent-offer", 2>> \notin web[1].ev

\* ------------------------------------------------- the two mutexes
\* The functions of the hub and of the manager as the statements that take
\* and release Hub.mu (h) and hubManager.mu (m), read or write what they
\* protect (Hub.clients, hubManager.hubs), call a store, put a frame on a
\* send queue, or call OnEmpty.

\* Hub.snapshot: Peers, Broadcasting, Usernames.
snapshotOps == <<"store", "store", "store">>

\* Hub.broadcast: the fan-out runs under the read lock.
broadcastOps == <<"h.RLock", "clients", "send", "h.RUnlock">>

\* hubManager.scheduleCleanup: in each of its branches the entry is read, and
\* in the last the timer is written, between Lock and Unlock.
scheduleCleanupOps == <<"m.Lock", "hubs", "m.Unlock">>

\* Hub.register: the registry write, AddPeer, the snapshot, the welcome, the
\* peer-joined fan-out.
registerOps ==
    <<"h.Lock", "clients", "h.Unlock", "store">> \o snapshotOps \o <<"send">>
        \o broadcastOps

\* An unregister that holds Hub.mu until it returns.
unregisterOps_Held(empty) ==
    <<"h.Lock", "clients", "store", "store", "store">> \o snapshotOps
        \o <<"send">>
        \o (IF empty THEN <<"onEmpty">> \o scheduleCleanupOps ELSE <<>>)
        \o <<"h.Unlock">>

\* Hub.unregister: the registry delete, the three RemovePeer calls, the
\* snapshot, the peer-left fan-out, and OnEmpty when the re-read presence is
\* empty.
unregisterOps(empty) ==
    <<"h.Lock", "clients", "h.Unlock", "store", "store", "store">> \o snapshotOps
        \o broadcastOps
        \o (IF empty THEN <<"onEmpty">> \o scheduleCleanupOps ELSE <<>>)

\* Hub.forwardSignal: the lookup under the read lock, then sendJSON.
forwardSignalOps == <<"h.RLock", "clients", "h.RUnlock", "send">>

\* Hub.updateBroadcast, and handleInbound's SetUsername with publishPresence:
\* a store write, the snapshot, the fan-out.
updateBroadcastOps == <<"store">> \o snapshotOps \o broadcastOps

\* hubManager.hubForRoom: the whole body runs under m.mu (defer Unlock); an
\* entry that is found has its timer cleared, else the three stores are reset
\* and the entry is installed.
hubForRoomOps(found) ==
    <<"m.Lock", "hubs">>
        \o (IF found THEN <<"hubs">> ELSE <<"store", "store", "store", "hubs">>)
        \o <<"m.Unlock">>

\* hubManager.cleanupRoom, the timer callback: Peers, then either the timer
\* is cleared, or the stores are reset, the room record is deleted and the
\* entry is deleted.
cleanupRoomOps(peers) ==
    <<"store">>
        \o (IF peers THEN <<>> ELSE <<"store", "store", "store", "store">>)
        \o <<"m.Lock", "hubs", "m.Unlock">>

Programs ==
    [register |-> registerOps,
     unregister |-> unregisterOps(FALSE),
     unregisterEmpty |-> unregisterOps(TRUE),
     forwardSignal |-> forwardSignalOps,
     updateBroadcast |-> updateBroadcastOps,
     hubForRoomFound |-> hubForRoomOps(TRUE),
     hubForRoomNew |-> hubForRoomOps(FALSE),
     cleanupRoomAbort |-> cleanupRoomOps(TRUE),
     cleanupRoomDelete |-> cleanupRoomOps(FALSE)]

TimerCallbacks == {"cleanupRoomAbort", "cleanupRoomDelete"}

Called(g) == gor[g].fn # ""

\* The statement goroutine g executes next.
Stmt(g) == IF Called(g) THEN Programs[gor[g].fn][gor[g].at] ELSE ""

Return(g) ==
    gor' = [gor EXCEPT ![g] = IF @.at = Len(Programs[@.fn]) THEN NoCallee
                              ELSE [@ EXCEPT !.at = @ + 1]]

LockUnchanged ==
    UNCHANGED <<roomVars, storeVars, hubs, entryTimer, hubRoom, timers, tRoom,
                clients, pc, rc, hubOf, snap, arg, queue, cliVars, inputs, sig,
                life, drops, stamp, call, now, trip, web, byID>>

\* A request, a frame, a closed socket or a timer makes goroutine g run fn.
spawn(g, fn) ==
    /\ ~Called(g)
    /\ gor' = [gor EXCEPT ![g] = [fn |-> fn, at |-> 1]]
    /\ UNCHANGED <<mu, mLock>>
    /\ LockUnchanged

\* h.mu.Lock(): waits while there is a writer or a reader.
hLock(g) ==
    /\ Stmt(g) = "h.Lock"
    /\ mu.w = 0 /\ mu.r = {}
    /\ mu' = [mu EXCEPT !.w = g]
    /\ Return(g)
    /\ UNCHANGED mLock
    /\ LockUnchanged

hUnlock(g) ==
    /\ Stmt(g) = "h.Unlock"
    /\ mu' = [mu EXCEPT !.w = 0]
    /\ Return(g)
    /\ UNCHANGED mLock
    /\ LockUnchanged

\* h.mu.RLock(): waits while there is a writer.
hRLock(g) ==
    /\ Stmt(g) = "h.RLock"
    /\ mu.w = 0
    /\ mu' = [mu EXCEPT !.r = @ \cup {g}]
    /\ Return(g)
    /\ UNCHANGED mLock
    /\ LockUnchanged

hRUnlock(g) ==
    /\ Stmt(g) = "h.RUnlock"
    /\ mu' = [mu EXCEPT !.r = @ \ {g}]
    /\ Return(g)
    /\ UNCHANGED mLock
    /\ LockUnchanged

\* m.mu.Lock(): waits while another goroutine holds it.
mLockLock(g) ==
    /\ Stmt(g) = "m.Lock"
    /\ mLock = 0
    /\ mLock' = g
    /\ Return(g)
    /\ UNCHANGED mu
    /\ LockUnchanged

mLockUnlock(g) ==
    /\ Stmt(g) = "m.Unlock"
    /\ mLock' = 0
    /\ Return(g)
    /\ UNCHANGED mu
    /\ LockUnchanged

\* Any other statement: it takes and releases nothing.
statement(g) ==
    /\ Stmt(g) \in {"clients", "hubs", "store", "send", "onEmpty"}
    /\ Return(g)
    /\ UNCHANGED <<mu, mLock>>
    /\ LockUnchanged

LockNext ==
    \E g \in Goroutines :
        \/ \E fn \in DOMAIN Programs : spawn(g, fn)
        \/ hLock(g) \/ hUnlock(g) \/ hRLock(g) \/ hRUnlock(g)
        \/ mLockLock(g) \/ mLockUnlock(g)
        \/ statement(g)

LockSpec == InitWith(MaxInputs) /\ [][LockNext]_vars

HoldsRegistry(g) == mu.w = g \/ g \in mu.r

\* The goroutines that hold the mutex goroutine g is waiting for.
WaitsFor(g) ==
    CASE Stmt(g) = "h.Lock" -> ({mu.w} \cup mu.r) \ {0}
      [] Stmt(g) = "h.RLock" -> {mu.w} \ {0}
      [] Stmt(g) = "m.Lock" -> {mLock} \ {0}
      [] OTHER -> {}

\* Some goroutines wait for mutexes that only goroutines among them release.
Deadlocked ==
    \E S \in SUBSET Goroutines :
        /\ S # {}
        /\ \A g \in S : WaitsFor(g) \cap S # {}

\* C40: no goroutine calls a presence store or OnEmpty while it holds the
\* hub's registry mutex, a timer callback reads and writes the manager's map
\* only while it holds the manager mutex, and no goroutines wait for each
\* other on the two mutexes.
C40_MutexDiscipline ==
    /\ \A g \in Goroutines :
          Stmt(g) \in {"store", "onEmpty"} => ~HoldsRegistry(g)
    /\ \A g \in Goroutines :
          gor[g].fn \in TimerCallbacks /\ Stmt(g) = "hubs" => mLock = g
    /\ ~Deadlocked

\* One goroutine resets a store inside hubForRoom, holding the manager mutex,
\* while another holds the registry mutex as a writer.
C40_Witness ==
    \E g, h \in Goroutines :
        /\ g # h
        /\ mu.w = g
        /\ mLock = h
        /\ Stmt(h) = "store"

====
